---- MODULE Spec2Model ----
(***************************************************************************)
(* The index computation of src/lib/index-calculation.ts (calculateZScore, *)
(* calculateStats, calculateBTCTrend, calculateBitcoinDirectionIndex and   *)
(* calculateCorrelation), the index-history and dashboard routes of        *)
(* src/app/api, and the merge of BTCChart in src/components/btc-chart.tsx. *)
(*                                                                         *)
(* A JavaScript number is modelled as a rational <<n, d>>, d > 0, in       *)
(* lowest terms.  Every arithmetic operation of the source is the exact    *)
(* operation followed by the rounding of the number format, Fl.  The       *)
(* variable precision holds the significand width of that format:          *)
(*   precision = 0   the arithmetic is exact (no rounding step);           *)
(*   precision = p   every result is rounded to p significant bits, to     *)
(*                   nearest, ties to even, as IEEE 754 binary64 does      *)
(*                   with p = 53.                                          *)
(* Only finite numbers are modelled: no NaN, no infinity, no overflow.     *)
(***************************************************************************)
EXTENDS Integers, Sequences, FiniteSets, TLC

VARIABLES
    ret,        \* the last call of a function of the library and its result
    prev,       \* the call taken last, when it was a calculateBTCTrend call
    now,        \* the clock Date.now() reads
    precision   \* significand width of the number format (0: exact)

vars == <<ret, prev, now, precision>>

(***************************************************************************)
(* Bounds of the model.                                                    *)
(***************************************************************************)
\* Significand width of the reduced binary floating-point format.
MantissaBits == 10
\* The clock stops advancing at MaxNow.
MaxNow == 1

(***************************************************************************)
(* Rational numbers.  The arithmetic is written as functions of numbers:   *)
(* their arguments are values.                                             *)
(***************************************************************************)
Number == Int \X Int

Abs[x \in Int] == IF x < 0 THEN -x ELSE x

Gcd[a \in Nat, b \in Nat] == IF b = 0 THEN a ELSE Gcd[b, a % b]

Rat[n \in Int, d \in Int] ==
    LET g == Gcd[Abs[n], Abs[d]]
    IN  IF d < 0 THEN <<(-n) \div g, (-d) \div g>> ELSE <<n \div g, d \div g>>

Num(k) == <<k, 1>>
Zero == Num(0)
One == Num(1)

Add[a \in Number, b \in Number] == Rat[a[1] * b[2] + b[1] * a[2], a[2] * b[2]]
Sub[a \in Number, b \in Number] == Rat[a[1] * b[2] - b[1] * a[2], a[2] * b[2]]
Mul[a \in Number, b \in Number] == Rat[a[1] * b[1], a[2] * b[2]]
Quot[a \in Number, b \in Number] == Rat[a[1] * b[2], a[2] * b[1]]
Neg[a \in Number] == <<-a[1], a[2]>>
Lt[a \in Number, b \in Number] == a[1] * b[2] < b[1] * a[2]
Le[a \in Number, b \in Number] == a[1] * b[2] <= b[1] * a[2]
IsZero[a \in Number] == a[1] = 0
Floor[a \in Number] == a[1] \div a[2]

(***************************************************************************)
(* The rounding of the number format: to nearest, ties to even.            *)
(***************************************************************************)
MaxInt == 1073741823 + 1073741824

\* floor(a * b^(-e) / d): a / d scaled down by b^e, or up when e < 0.
\* k and d with their common factor taken out: a * k / d is computed as
\* a * Lowest[k, d] / Lowest[d, k].
Lowest[k \in Nat, d \in Nat] == k \div Gcd[k, d]

Scaled[a \in Nat, d \in Nat, b \in Nat, e \in Int] ==
    IF e >= 0 THEN (a \div (b ^ e)) \div d
    ELSE (a * Lowest[b ^ (-e), d]) \div Lowest[d, b ^ (-e)]

\* The e with b^e * lo <= a / d < b^e * b * lo.
Within[x \in Int, lo \in Int, hi \in Int] == lo <= x /\ x < hi

Exponent[a \in Nat, d \in Nat, b \in Nat, lo \in Nat] ==
    CHOOSE e \in -30..30 :
        /\ b = 2 \/ Within[e, -15, 16]
        /\ e < 0 => a <= MaxInt \div Lowest[b ^ (-e), d]
        /\ Within[Scaled[a, d, b, e], lo, b * lo]

RoundHalfEven[a \in Nat, d \in Nat] ==
    LET m == a \div d
        r == a - m * d
    IN  IF 2 * r > d \/ (2 * r = d /\ m % 2 = 1) THEN m + 1 ELSE m

\* m * 2^e
Scale[m \in Int, e \in Int] ==
    IF e >= 0 THEN Rat[m * (2 ^ e), 1] ELSE Rat[m, 2 ^ (-e)]

\* The magnitude a / d rounded to an integer multiple of 2^e, with sign sgn.
RoundAt[a \in Nat, d \in Nat, e \in Int, sgn \in Int] ==
    Scale[sgn * (IF e >= 0 THEN RoundHalfEven[a, d * (2 ^ e)]
                 ELSE RoundHalfEven[a * Lowest[2 ^ (-e), d],
                                    Lowest[d, 2 ^ (-e)]]), e]

\* q rounded to p significant bits.
RoundBits[q \in Number, p \in Nat] ==
    IF q[1] = 0 THEN q
    ELSE RoundAt[Abs[q[1]], q[2], Exponent[Abs[q[1]], q[2], 2, 2 ^ (p - 1)],
                 IF q[1] < 0 THEN -1 ELSE 1]

Fl[q \in Number] == IF precision = 0 THEN q ELSE RoundBits[q, precision]

(***************************************************************************)
(* The operators and Math functions of JavaScript the source uses.         *)
(***************************************************************************)
JsAdd[a \in Number, b \in Number] == Fl[Add[a, b]]
JsSub[a \in Number, b \in Number] == Fl[Sub[a, b]]
JsMul[a \in Number, b \in Number] == Fl[Mul[a, b]]
JsDiv[a \in Number, b \in Number] == Fl[Quot[a, b]]
\* A numeric literal of the source.
Lit[n \in Int, d \in Int] == Fl[Rat[n, d]]

MathMax[a \in Number, b \in Number] == IF Lt[a, b] THEN b ELSE a
MathMin[a \in Number, b \in Number] == IF Lt[b, a] THEN b ELSE a
\* Math.round(x) = floor(x + 0.5), an integer.
MathRound[a \in Number] == Num(Floor[Add[a, <<1, 2>>]])
\* Math.pow(x, 2)
MathPow2[a \in Number] == Fl[Mul[a, a]]

\* floor(sqrt(n)), by bisection on [lo, hi).
IsqrtIn[n \in Nat, lo \in Nat, hi \in Nat] ==
    IF hi - lo <= 1 THEN lo
    ELSE LET mid == (lo + hi) \div 2
         IN  IF mid * mid <= n THEN IsqrtIn[n, mid, hi] ELSE IsqrtIn[n, lo, mid]

Isqrt[n \in Nat] == IsqrtIn[n, 0, 46341]

\* The j with 4^j the largest power of 4 that divides d.
FoursIn[d \in Nat] ==
    CHOOSE j \in 0..15 : d % (4 ^ j) = 0 /\ d % (4 ^ (j + 1)) # 0

\* m or m + 1, whichever is nearer to sqrt(a / d), for m = floor(sqrt(a / d)).
NearestRoot[a \in Nat, d \in Nat, m \in Nat] ==
    IF (2 * m + 1) * (2 * m + 1) * d < 4 * a
       \/ ((2 * m + 1) * (2 * m + 1) * d = 4 * a /\ m % 2 = 1)
    THEN m + 1 ELSE m

\* sqrt(a / d0) rounded to an integer multiple of 2^e, times 2^(-j).
SqrtAt[a \in Nat, d0 \in Nat, e \in Int, j \in Nat] ==
    IF e >= 0
    THEN Scale[NearestRoot[a, d0 * (4 ^ e), Isqrt[a \div (d0 * (4 ^ e))]], e - j]
    ELSE Scale[NearestRoot[a * (4 ^ (-e)), d0, Isqrt[(a * (4 ^ (-e))) \div d0]],
               e - j]

\* sqrt(a / (d0 * 4^j)) = sqrt(a / d0) / 2^j rounded to p significant bits.
SqrtOver[a \in Nat, d0 \in Nat, j \in Nat, p \in Nat] ==
    SqrtAt[a, d0, Exponent[a, d0, 4, 4 ^ (p - 1)], j]

\* The square root of q > 0 rounded to p significant bits.
SqrtBits[q \in Number, p \in Nat] ==
    SqrtOver[q[1], q[2] \div (4 ^ FoursIn[q[2]]), FoursIn[q[2]], p]

\* The root of n / d from the integer roots rn, rd of n and d when both are
\* exact, rounded otherwise.
SqrtFrom[q \in Number, rn \in Nat, rd \in Nat] ==
    IF rn * rn = q[1] /\ rd * rd = q[2] THEN Fl[<<rn, rd>>]
    ELSE SqrtBits[q, IF precision = 0 THEN MantissaBits ELSE precision]

\* Math.sqrt: the correctly rounded root.  A rational root is exact when the
\* arithmetic is; an irrational one is rounded to MantissaBits bits.
MathSqrt[q \in Number] ==
    IF q[1] = 0 THEN Zero ELSE SqrtFrom[q, Isqrt[q[1]], Isqrt[q[2]]]

(***************************************************************************)
(* Array helpers.                                                          *)
(***************************************************************************)
\* values.reduce((sum, val) => sum + val, 0), from element i on.
ReduceSum[values \in Seq(Number), i \in Nat, sum \in Number] ==
    IF i > Len(values) THEN sum
    ELSE ReduceSum[values, i + 1, JsAdd[sum, values[i]]]

\* values.reduce((sum, val) => sum + Math.pow(val - mean, 2), 0)
ReduceSquares[values \in Seq(Number), mean \in Number, i \in Nat, sum \in Number] ==
    IF i > Len(values) THEN sum
    ELSE ReduceSquares[values, mean, i + 1,
                       JsAdd[sum, MathPow2[JsSub[values[i], mean]]]]

\* array.slice(-k): the last k elements, all of them when fewer exist.
SliceLast[s \in Seq(Number), k \in Nat] ==
    IF Len(s) <= k THEN s ELSE SubSeq(s, Len(s) - k + 1, Len(s))

(***************************************************************************)
(* src/lib/index-calculation.ts                                            *)
(***************************************************************************)
\* Variants of the functions below, each with one step of the source left
\* out or altered; the properties are checked to tell them apart.

\* calculateZScore without the subtraction of the mean.
calculateZScoreNoMean(value, mean, stdDev) ==
    IF IsZero[stdDev] THEN Zero ELSE JsDiv[value, stdDev]

\* NormalizeZ without the clamp to [-2, 2].
NormalizeZNoClamp(z) == JsDiv[z, Num(2)]

\* RoundIndex without the rounding.
RoundIndexNone(index) == index

\* calculateBTCTrend without the length guard, the current price standing
\* for the short-term average.
calculateBTCTrendOfCurrent(currentPrice, historicalPrices) ==
    IF Len(historicalPrices) = 0 THEN Zero
    ELSE LET avg == JsDiv[ReduceSum[historicalPrices, 1, Zero],
                          Num(Len(historicalPrices))]
         IN  IF IsZero[avg] THEN Zero
             ELSE MathMax[Num(-1), MathMin[One,
                      JsMul[JsDiv[JsSub[currentPrice, avg], avg], Num(10)]]]

\* calculateBTCTrend with a short term of the last 3 prices.
calculateBTCTrendShortOfThree(currentPrice, historicalPrices) ==
    IF Len(historicalPrices) < 2 THEN Zero
    ELSE LET shortTerm == SliceLast[historicalPrices, 3]
             mediumTerm == SliceLast[historicalPrices, 30]
             shortTermAvg == JsDiv[ReduceSum[shortTerm, 1, Zero],
                                   Num(Len(shortTerm))]
             mediumTermAvg == JsDiv[ReduceSum[mediumTerm, 1, Zero],
                                    Num(Len(mediumTerm))]
             trend == JsDiv[JsSub[shortTermAvg, mediumTermAvg], mediumTermAvg]
         IN  IF IsZero[mediumTermAvg] THEN Zero
             ELSE MathMax[Num(-1), MathMin[One, JsMul[trend, Num(10)]]]

\* calculateBTCTrend with the whole history as the medium term.
calculateBTCTrendWholeHistory(currentPrice, historicalPrices) ==
    IF Len(historicalPrices) < 2 THEN Zero
    ELSE LET shortTerm == SliceLast[historicalPrices, 7]
             shortTermAvg == JsDiv[ReduceSum[shortTerm, 1, Zero],
                                   Num(Len(shortTerm))]
             mediumTermAvg == JsDiv[ReduceSum[historicalPrices, 1, Zero],
                                    Num(Len(historicalPrices))]
             trend == JsDiv[JsSub[shortTermAvg, mediumTermAvg], mediumTermAvg]
         IN  IF IsZero[mediumTermAvg] THEN Zero
             ELSE MathMax[Num(-1), MathMin[One, JsMul[trend, Num(10)]]]

\* calculateBTCTrend with the two averages exchanged in the difference.
calculateBTCTrendInverted(currentPrice, historicalPrices) ==
    IF Len(historicalPrices) < 2 THEN Zero
    ELSE LET shortTerm == SliceLast[historicalPrices, 7]
             mediumTerm == SliceLast[historicalPrices, 30]
             shortTermAvg == JsDiv[ReduceSum[shortTerm, 1, Zero],
                                   Num(Len(shortTerm))]
             mediumTermAvg == JsDiv[ReduceSum[mediumTerm, 1, Zero],
                                    Num(Len(mediumTerm))]
             trend == JsDiv[JsSub[mediumTermAvg, shortTermAvg], mediumTermAvg]
         IN  IF IsZero[mediumTermAvg] THEN Zero
             ELSE MathMax[Num(-1), MathMin[One, JsMul[trend, Num(10)]]]

calculateZScore(value, mean, stdDev) ==
    IF IsZero[stdDev] THEN Zero
    ELSE JsDiv[JsSub[value, mean], stdDev]

\* x || 1
OrOne[x \in Number] == IF IsZero[x] THEN One ELSE x

calculateStats(values) ==
    IF Len(values) = 0 THEN [mean |-> Zero, stdDev |-> One]
    ELSE LET mean == JsDiv[ReduceSum[values, 1, Zero], Num(Len(values))]
             variance == JsDiv[ReduceSquares[values, mean, 1, Zero],
                               Num(Len(values))]
             stdDev == MathSqrt[variance]
         IN  [mean |-> mean, stdDev |-> OrOne[stdDev]]

ShortWindow == 7
MediumWindow == 30
TrendScale == 10

calculateBTCTrend(currentPrice, historicalPrices) ==
    IF Len(historicalPrices) < 2 THEN Zero
    ELSE LET shortTerm == SliceLast[historicalPrices, ShortWindow]
             mediumTerm == SliceLast[historicalPrices, MediumWindow]
             shortTermAvg == JsDiv[ReduceSum[shortTerm, 1, Zero],
                                   Num(Len(shortTerm))]
             mediumTermAvg == JsDiv[ReduceSum[mediumTerm, 1, Zero],
                                    Num(Len(mediumTerm))]
             trend == JsDiv[JsSub[shortTermAvg, mediumTermAvg], mediumTermAvg]
         IN  IF Len(shortTerm) = 0 \/ Len(mediumTerm) = 0 THEN Zero
             ELSE IF IsZero[mediumTermAvg] THEN Zero
             ELSE MathMax[Num(-1), MathMin[One, JsMul[trend, Num(TrendScale)]]]

PMICenter == 50
ZClamp == 2

\* pmiHistory.map(p => p - 50)
MapCenter(pmiHistory) ==
    [i \in 1..Len(pmiHistory) |-> JsSub[pmiHistory[i], Num(PMICenter)]]

\* The if / else-if chain of the interpretation.
Interpret[index \in Number] ==
    IF Lt[index, Num(20)] THEN "very_bearish"
    ELSE IF Lt[index, Num(40)] THEN "bearish"
    ELSE IF Lt[index, Num(60)] THEN "neutral"
    ELSE IF Lt[index, Num(80)] THEN "bullish"
    ELSE "very_bullish"

\* Math.max(-2, Math.min(2, z)) / 2
NormalizeZ(z) == JsDiv[MathMax[Num(-ZClamp), MathMin[Num(ZClamp), z]], Num(2)]

\* Math.round(index * 100) / 100
RoundIndex(index) == JsDiv[MathRound[JsMul[index, Num(100)]], Num(100)]

\* What calculateStats returns.
Stats == [mean : Number, stdDev : Number]

\* calculateZScore against the statistics of a sample (lines 67-71, 78).
ZScoreIn[value \in Number, stats \in Stats] ==
    calculateZScore(value, stats.mean, stats.stdDev)

\* Lines 83-127: the weighted combination of the components and the result.
ComposeIndex[liquidityZScore \in Number, pmiZScore \in Number, btcTrend \in Number] ==
    LET weights == [liquidity |-> Lit[2, 5], pmi |-> Lit[7, 20],
                    btcTrend |-> Lit[1, 4]]
        normalizedLiquidity == NormalizeZ(liquidityZScore)
        normalizedPMI == NormalizeZ(pmiZScore)
        rawIndex == JsAdd[JsAdd[JsMul[weights.liquidity, normalizedLiquidity],
                                JsMul[weights.pmi, normalizedPMI]],
                          JsMul[weights.btcTrend, btcTrend]]
        index == JsMul[JsDiv[JsAdd[rawIndex, One], Num(2)], Num(100)]
    IN  [index |-> RoundIndex(index),
         liquidityZScore |-> liquidityZScore,
         pmiZScore |-> pmiZScore,
         btcTrend |-> btcTrend,
         timestamp |-> now,
         interpretation |-> Interpret[index]]

calculateBitcoinDirectionIndex(liquidity, liquidityHistory, pmi, pmiHistory, btcPrice, btcPriceHistory) ==
    LET liquidityStats == calculateStats(liquidityHistory)
        liquidityZScore == ZScoreIn[liquidity.liquidity, liquidityStats]
        pmiNormalized == JsSub[pmi.value, Num(PMICenter)]
        pmiStats == calculateStats(MapCenter(pmiHistory))
        pmiZScore == ZScoreIn[pmiNormalized, pmiStats]
        btcTrend == calculateBTCTrend(btcPrice.price, btcPriceHistory)
    IN  ComposeIndex[liquidityZScore, pmiZScore, btcTrend]

\* The three accumulators of lines 145-147.
Sums == [numerator : Number, indexVariance : Number, priceVariance : Number]

\* The loop of lines 148-154 from element i on, with the three sums so far.
CorrelationSums[indexValues \in Seq(Number), priceValues \in Seq(Number), indexMean \in Number, priceMean \in Number, i \in Nat, sums \in Sums] ==
    IF i > Len(indexValues) THEN sums
    ELSE CorrelationSums[indexValues, priceValues, indexMean, priceMean, i + 1,
             [numerator |->
                  JsAdd[sums.numerator,
                        JsMul[JsSub[indexValues[i], indexMean],
                              JsSub[priceValues[i], priceMean]]],
              indexVariance |->
                  JsAdd[sums.indexVariance,
                        JsMul[JsSub[indexValues[i], indexMean],
                              JsSub[indexValues[i], indexMean]]],
              priceVariance |->
                  JsAdd[sums.priceVariance,
                        JsMul[JsSub[priceValues[i], priceMean],
                              JsSub[priceValues[i], priceMean]]]]]

\* Lines 156-159: the quotient, 0 on a zero denominator.
CorrelationOf[numerator \in Number, denominator \in Number] ==
    IF IsZero[denominator] THEN Zero ELSE JsDiv[numerator, denominator]

\* calculateCorrelation dividing by the product of the sums of squares, the
\* square root left out.
calculateCorrelationNoRoot(indexValues, priceValues) ==
    IF Len(indexValues) # Len(priceValues) \/ Len(indexValues) < 2 THEN Zero
    ELSE LET n == Len(indexValues)
             sums == CorrelationSums[indexValues, priceValues,
                         JsDiv[ReduceSum[indexValues, 1, Zero], Num(n)],
                         JsDiv[ReduceSum[priceValues, 1, Zero], Num(n)],
                         1, [numerator |-> Zero, indexVariance |-> Zero,
                             priceVariance |-> Zero]]
         IN  CorrelationOf[sums.numerator,
                           JsMul[sums.indexVariance, sums.priceVariance]]

calculateCorrelation(indexValues, priceValues) ==
    IF Len(indexValues) # Len(priceValues) \/ Len(indexValues) < 2 THEN Zero
    ELSE LET n == Len(indexValues)
             indexMean == JsDiv[ReduceSum[indexValues, 1, Zero], Num(n)]
             priceMean == JsDiv[ReduceSum[priceValues, 1, Zero], Num(n)]
             sums == CorrelationSums[indexValues, priceValues, indexMean,
                                     priceMean, 1,
                                     [numerator |-> Zero, indexVariance |-> Zero,
                                      priceVariance |-> Zero]]
             denominator == MathSqrt[JsMul[sums.indexVariance,
                                           sums.priceVariance]]
         IN  CorrelationOf[sums.numerator, denominator]

(***************************************************************************)
(* The inputs the functions are called with.                               *)
(***************************************************************************)
\* k copies of the number p.
Flat(p, k) == [i \in 1..k |-> p]

\* Samples for calculateStats under exact arithmetic: the empty one, single
\* and constant ones, ones with a rational and with an irrational deviation.
ExactSamples ==
    { <<>>, <<Num(5)>>, Flat(Num(5), 3), Flat(Rat[1, 10], 3),
      <<Num(0), Num(10000)>>, <<Num(60), Num(62)>>, <<Num(50), Num(50)>>,
      <<Num(1), Num(2), Num(3)>>, <<Num(-3), Num(3)>>,
      <<Num(2), Num(4), Num(4), Num(4), Num(5), Num(5), Num(7), Num(9)>> }

\* Under rounding arithmetic: every sample of at most MaxCopies numbers of
\* FloatValues, which the format represents exactly.
MaxCopies == 3
FloatValues == {Num(5), Num(685), Num(686)}

RECURSIVE SeqsUpTo(_, _)
SeqsUpTo(S, k) ==
    IF k = 0 THEN {<<>>}
    ELSE LET shorter == SeqsUpTo(S, k - 1)
         IN  shorter \cup {Append(h, v) : h \in {x \in shorter : Len(x) = k - 1}, v \in S}

FloatSamples == SeqsUpTo(FloatValues, MaxCopies)

Samples == IF precision = 0 THEN ExactSamples ELSE FloatSamples

\* <<liquidity.liquidity, liquidityHistory>>
ExactLiquidityCases ==
    { <<Num(0), <<>> >>, <<Num(-3), <<>> >>, <<Num(3), <<>> >>,
      <<Num(5000), <<Num(0), Num(10000)>> >>,
      <<Num(-1251), <<Num(0), Num(10000)>> >>,
      <<Num(5), <<Num(1), Num(2), Num(3)>> >>,
      <<Rat[1, 10], Flat(Rat[1, 10], 3)>> }

FloatLiquidityCases ==
    {<<v, Flat(c, k)>> : v \in {Num(5), Num(686)}, c \in {Num(5), Num(686)}, k \in 0..MaxCopies}

LiquidityCases ==
    IF precision = 0 THEN ExactLiquidityCases ELSE FloatLiquidityCases

\* <<pmi.value, pmiHistory>>
ExactPMICases ==
    { <<Num(50), <<>> >>, <<Num(50), <<Num(50), Num(50)>> >>,
      <<Num(48), <<>> >>, <<Num(53), <<>> >>, <<Rat[487, 10], <<>> >>,
      <<Num(55), <<Num(60), Num(62)>> >>, <<Num(50), <<Num(60), Num(62)>> >>,
      <<Num(45), <<Num(48), Num(50), Num(52), Num(54)>> >> }

FloatPMICases ==
    { <<Num(50), <<>> >>, <<Num(50), Flat(Num(50), MaxCopies)>>,
      <<Num(52), <<Num(48), Num(52)>> >> }

PMICases == IF precision = 0 THEN ExactPMICases ELSE FloatPMICases

\* Price histories: i copies of one price followed by j copies of another,
\* from none to more than the medium window holds.
PricePairs ==
    { <<Num(100), Num(100)>>, <<Num(108), Num(100)>>, <<Num(94), Num(102)>>,
      <<Num(2), Num(1)>>, <<Num(1), Num(100)>>, <<Num(0), Num(0)>> }
HeadLengths == {0, 1, MediumWindow - ShortWindow + 1}
TailLengths == {0, 1, 3, ShortWindow}

ExactPriceHistories ==
    {Flat(p[1], i) \o Flat(p[2], j) : p \in PricePairs, i \in HeadLengths, j \in TailLengths}

\* Under rounding arithmetic: flat histories no longer than the short
\* window, whose two averages are one and the same computation.
FloatPriceHistories ==
    {Flat(p, k) : p \in {Num(100), Num(686)}, k \in {0, 1, 2, ShortWindow}}

PriceHistories ==
    IF precision = 0 THEN ExactPriceHistories ELSE FloatPriceHistories

\* Price histories the index is computed on.
IndexPriceHistories ==
    IF precision = 0
    THEN { <<>>, Flat(Num(100), 8), <<Num(1)>> \o Flat(Num(100), 7),
           <<Num(2)>> \o Flat(Num(1), 7), <<Num(108)>> \o Flat(Num(100), 7) }
    ELSE FloatPriceHistories

CurrentPrices == {Num(0), Num(100)}

\* Arguments of calculateZScore.
ZValues == {Num(-3), Num(0), Rat[1, 10], Num(5), Num(686)}
ZMeans == {Num(0), Num(5), Num(685)}
ZStdDevs == {Num(0), Num(1), Num(2), Rat[1, 3]}

(***************************************************************************)
(* The state machine: a caller invokes the functions, one call at a time,  *)
(* and takes each result before the next call.                             *)
(***************************************************************************)
NoCall == [fn |-> "none"]

Init ==
    /\ ret = NoCall
    /\ prev = NoCall
    /\ now = 0
    /\ precision = 0

\* The same caller on the reduced floating-point format.
InitFloat ==
    /\ ret = NoCall
    /\ prev = NoCall
    /\ now = 0
    /\ precision = MantissaBits

CallStats ==
    /\ ret.fn = "none"
    /\ \E values \in Samples :
          ret' = [fn |-> "calculateStats", values |-> values,
                  out |-> calculateStats(values)]
    /\ UNCHANGED <<prev, now, precision>>

CallZScore ==
    /\ ret.fn = "none"
    /\ \E value \in ZValues, mean \in ZMeans, stdDev \in ZStdDevs :
          ret' = [fn |-> "calculateZScore", value |-> value, mean |-> mean,
                  stdDev |-> stdDev,
                  out |-> calculateZScore(value, mean, stdDev)]
    /\ UNCHANGED <<prev, now, precision>>

CallBTCTrend ==
    /\ ret.fn = "none"
    /\ \E currentPrice \in CurrentPrices, historicalPrices \in PriceHistories :
          ret' = [fn |-> "calculateBTCTrend", currentPrice |-> currentPrice,
                  historicalPrices |-> historicalPrices,
                  out |-> calculateBTCTrend(currentPrice, historicalPrices)]
    /\ UNCHANGED <<prev, now, precision>>

CallIndex ==
    /\ ret.fn = "none"
    /\ \E l \in LiquidityCases, p \in PMICases, price \in CurrentPrices,
          btcPriceHistory \in IndexPriceHistories :
          ret' = [fn |-> "calculateBitcoinDirectionIndex",
                  liquidity |-> [liquidity |-> l[1]],
                  liquidityHistory |-> l[2],
                  pmi |-> [value |-> p[1]],
                  pmiHistory |-> p[2],
                  btcPrice |-> [price |-> price],
                  btcPriceHistory |-> btcPriceHistory,
                  out |-> calculateBitcoinDirectionIndex(
                              [liquidity |-> l[1]], l[2], [value |-> p[1]],
                              p[2], [price |-> price], btcPriceHistory)]
    /\ UNCHANGED <<prev, now, precision>>

\* The caller takes the result; a trend result is kept for comparison with
\* the next one.
Take ==
    /\ ret.fn # "none"
    /\ prev' = IF ret.fn = "calculateBTCTrend" THEN ret ELSE NoCall
    /\ ret' = NoCall
    /\ UNCHANGED <<now, precision>>

\* Time passes.
Tick ==
    /\ now < MaxNow
    /\ now' = now + 1
    /\ UNCHANGED <<ret, prev, precision>>

\* The sequences calculateCorrelation is called with.
NegSeq(xs) == [i \in 1..Len(xs) |-> Neg[xs[i]]]

ExactCorrelationSeries ==
    { <<>>, <<Num(5)>>, <<Num(3), Num(3)>>, <<Num(1), Num(2)>>,
      <<Num(2), Num(1)>>, <<Num(60), Num(62)>>, <<Num(-3), Num(3)>>,
      Flat(Num(5), 3), <<Num(1), Num(2), Num(3)>>, <<Num(1), Num(2), Num(4)>>,
      <<Num(1), Num(3), Num(2)>>, Flat(Rat[1, 10], 3) }

\* Under rounding arithmetic: the sequences of at most MaxCopies numbers
\* near 686, whose sums are rounded, and three sequences of small numbers.
FloatCorrelationSeries ==
    SeqsUpTo({Num(685), Num(686)}, MaxCopies)
        \cup {<<Num(5), Num(7)>>, <<Num(5), Num(5), Num(7)>>,
              <<Num(7), Num(5), Num(6)>>}

CorrelationSeries ==
    IF precision = 0 THEN ExactCorrelationSeries ELSE FloatCorrelationSeries

CallCorrelation ==
    /\ ret.fn = "none"
    /\ \E indexValues \in CorrelationSeries :
          \E priceValues \in CorrelationSeries \cup {NegSeq(indexValues)} :
              ret' = [fn |-> "calculateCorrelation",
                      indexValues |-> indexValues, priceValues |-> priceValues,
                      out |-> calculateCorrelation(indexValues, priceValues)]
    /\ UNCHANGED <<prev, now, precision>>

Next ==
    CallStats \/ CallZScore \/ CallBTCTrend \/ CallIndex \/ CallCorrelation
        \/ Take \/ Tick

Spec == Init /\ [][Next]_vars
SpecFloat == InitFloat /\ [][Next]_vars

(***************************************************************************)
(* The objects calculateBitcoinDirectionIndex reads and creates            *)
(* (src/lib/index-calculation.ts, lines 14-128).  The heap is the sequence *)
(* of the objects allocated so far, an object's reference its position.    *)
(* The module keeps no variable of its own between calls.                  *)
(***************************************************************************)
\* A new object or array: the heap with it, its reference Len of that heap.
Alloc(heap, value) == Append(heap, value)

\* array.splice(-k) in the place of array.slice(-k): the last k elements are
\* returned in a new array and taken out of the receiver.
HeapSplice(heap, array, k) ==
    [Append(heap, SliceLast[heap[array], k]) EXCEPT
        ![array] = SubSeq(heap[array], 1, Len(heap[array]) - Len(SliceLast[heap[array], k]))]

\* array.slice(-k) (lines 39-40): a new array, the receiver left as it is.
HeapSlice(heap, array, k) == Alloc(heap, SliceLast[heap[array], k])

\* array.map(p => p - 50) (line 77): a new array, the receiver left as it is.
HeapMap(heap, array) == Alloc(heap, MapCenter(heap[array]))

\* calculateStats (lines 14-26): reduce reads values; the result is a new
\* object.
StatsOnHeap(heap, values) == Alloc(heap, calculateStats(heap[values]))

\* calculateBTCTrend (lines 32-51): the two slices, unless it returns early.
TrendOnHeap(heap, historicalPrices) ==
    IF Len(heap[historicalPrices]) < 2 THEN heap
    ELSE HeapSlice(HeapSlice(heap, historicalPrices, ShortWindow),
                   historicalPrices, MediumWindow)

\* calculateBitcoinDirectionIndex (lines 57-128) on the heap: args are the
\* references of its six arguments; the heap it leaves and the reference of
\* the object it returns.  Read from the innermost set outwards: h1 is the
\* heap after line 66, h2 and h3 after line 77, h4 after line 81, h5 after
\* the weights of line 87, h6 after the object literal of line 120.
IndexOnHeap(heap, args) ==
    CHOOSE returned \in
        { [heap |-> h6, result |-> Len(h6)] :
          h6 \in { Alloc(h5, calculateBitcoinDirectionIndex(
                                 h5[args.liquidity], h5[args.liquidityHistory],
                                 h5[args.pmi], h5[args.pmiHistory],
                                 h5[args.btcPrice], h5[args.btcPriceHistory])) :
          h5 \in { Alloc(h4, [liquidity |-> Lit[2, 5], pmi |-> Lit[7, 20],
                              btcTrend |-> Lit[1, 4]]) :
          h4 \in { TrendOnHeap(h3, args.btcPriceHistory) :
          h3 \in { StatsOnHeap(h2, Len(h2)) :
          h2 \in { HeapMap(h1, args.pmiHistory) :
          h1 \in { StatsOnHeap(heap, args.liquidityHistory) } } } } } } } : TRUE

\* The caller's six objects, in the order of the parameters.
ArgumentRefs ==
    [liquidity |-> 1, liquidityHistory |-> 2, pmi |-> 3, pmiHistory |-> 4,
     btcPrice |-> 5, btcPriceHistory |-> 6]

\* A call of calculateBitcoinDirectionIndex on objects of the caller.
CallIndexOnHeap ==
    /\ ret.fn = "none"
    /\ \E l \in LiquidityCases, p \in PMICases,
          btcPriceHistory \in IndexPriceHistories :
          LET before == << [liquidity |-> l[1]], l[2], [value |-> p[1]], p[2],
                           [price |-> Num(100)], btcPriceHistory >>
          IN  ret' = [fn |-> "indexOnHeap", calls |-> 1, before |-> before,
                      first |-> IndexOnHeap(before, ArgumentRefs)]
    /\ UNCHANGED <<prev, now, precision>>

\* The caller calls again with the same six objects.
CallIndexAgain ==
    /\ ret.fn = "indexOnHeap"
    /\ ret.calls = 1
    /\ ret' = [fn |-> "indexOnHeap", calls |-> 2, before |-> ret.before,
               first |-> ret.first,
               second |-> IndexOnHeap(ret.first.heap, ArgumentRefs)]
    /\ UNCHANGED <<prev, now, precision>>

NextHeap == CallIndexOnHeap \/ CallIndexAgain \/ Take \/ Tick

SpecHeap == Init /\ [][NextHeap]_vars

(***************************************************************************)
(* src/app/api/fred/route.ts, the index-history route (GET, lines 216-404).*)
(* A date string YYYY-MM-DD is the number of its day, the empty string is  *)
(* 0; a timestamp counts hours.                                            *)
(***************************************************************************)
HoursPerDay == 24
NoDate == 0

Observation == [date : Int, value : Number]
PricePoint == [timestamp : Int, date : Int, price : Number]

\* new Date(timestamp).toISOString().split("T")[0]
DateOf[timestamp \in Int] == timestamp \div HoursPerDay

\* response.data.prices.map(([timestamp, price]) => ({timestamp, date, price}))
PricePointsOf(prices) ==
    [i \in 1..Len(prices) |->
        [timestamp |-> prices[i][1], date |-> DateOf[prices[i][1]],
         price |-> prices[i][2]]]

\* The value "." FRED gives an observation without a value.
Missing == <<>>

\* parseFloat(obs.value): the number nearest to the decimal text.
ParseFloat(text) == Fl[text]

\* array.reverse()
Reverse(s) == [i \in 1..Len(s) |-> s[Len(s) + 1 - i]]

\* fetchFREDSeries (lines 123-149) and fetchPMIHistory (lines 186-214): the
\* valued observations of the response, which lists the newest first, in
\* chronological order; [] when the request fails.
FetchFREDSeries(fetch) ==
    IF fetch.failed THEN <<>>
    ELSE LET valued == SelectSeq(fetch.observations,
                                 LAMBDA obs : obs.value # Missing)
         IN  Reverse([i \in 1..Len(valued) |->
                         [date |-> valued[i].date,
                          value |-> ParseFloat(valued[i].value)]])

\* Variant of the operator below: the series is never found empty.
InsufficientLiquidityNever(liquidityHistory) == FALSE

\* Line 270: liquidityHistory.length === 0
InsufficientLiquidity(liquidityHistory) == Len(liquidityHistory) = 0

\* series.find(x => x.date === date)?.value || 0
FindValueOrZero[series \in Seq(Observation), date \in Int] ==
    LET hits == {i \in 1..Len(series) : series[i].date = date}
    IN  IF hits = {} THEN Zero
        ELSE series[CHOOSE i \in hits : \A j \in hits : i <= j].value

\* map.set(key, value) on the entries of a Map, kept in insertion order: the
\* value of a key already present is replaced in place.
MapSet[entries \in Seq(Int \X Number), key \in Int, value \in Number] ==
    IF \E i \in 1..Len(entries) : entries[i][1] = key
    THEN [i \in 1..Len(entries) |->
             IF entries[i][1] = key THEN <<key, value>> ELSE entries[i]]
    ELSE Append(entries, <<key, value>>)

\* The forEach of lines 243-253, from element i on.
LiquidityMapFrom[fedData \in Seq(Observation), tgaData \in Seq(Observation), rrpData \in Seq(Observation), i \in Nat, map \in Seq(Int \X Number)] ==
    IF i > Len(fedData) THEN map
    ELSE LiquidityMapFrom[fedData, tgaData, rrpData, i + 1,
             MapSet[map, fedData[i].date,
                    JsSub[JsSub[fedData[i].value,
                                FindValueOrZero[tgaData, fedData[i].date]],
                          FindValueOrZero[rrpData, fedData[i].date]]]]

\* The forEach of lines 257-261, from element i on.
PMIMapFrom[pmiHistory \in Seq(Observation), i \in Nat, map \in Seq(Int \X Number)] ==
    IF i > Len(pmiHistory) THEN map
    ELSE PMIMapFrom[pmiHistory, i + 1,
                    MapSet[map, pmiHistory[i].date, pmiHistory[i].value]]

\* Array.from(map.values())
MapValues(entries) == [i \in 1..Len(entries) |-> entries[i][2]]

\* One step of the sort: e placed after the entries whose date is not later.
InsertByDate[sorted \in Seq(Int \X Number), e \in Int \X Number] ==
    LET k == Cardinality({i \in 1..Len(sorted) : sorted[i][1] <= e[1]})
    IN  SubSeq(sorted, 1, k) \o <<e>> \o SubSeq(sorted, k + 1, Len(sorted))

\* Array.from(map.entries()).sort((a, b) => a[0].localeCompare(b[0]))
SortByDate[entries \in Seq(Int \X Number)] ==
    IF Len(entries) = 0 THEN <<>>
    ELSE InsertByDate[SortByDate[SubSeq(entries, 1, Len(entries) - 1)],
                      entries[Len(entries)]]

\* The backward scan of lines 301-308 and 312-318 from position i: the
\* position of the first entry met with date <= dateStr, 0 when there is none.
ScanBack[entries \in Seq(Int \X Number), dateStr \in Int, i \in Nat] ==
    IF i = 0 THEN 0
    ELSE IF entries[i][1] <= dateStr THEN i
    ELSE ScanBack[entries, dateStr, i - 1]

\* Variants of the two operators below: the scan started at the oldest
\* entry, and the skip that looks at the prices only.
ForwardFillFromOldest(entries, dateStr) ==
    IF \E i \in 1..Len(entries) : entries[i][1] <= dateStr
    THEN CHOOSE i \in 1..Len(entries) :
             /\ entries[i][1] <= dateStr
             /\ \A j \in 1..(i - 1) : ~(entries[j][1] <= dateStr)
    ELSE 0

SkipsPointOnPricesOnly(recentPrices, liquidityDate) == Len(recentPrices) < 2

\* The scan of lines 301-308 and 312-318, started at the most recent entry.
ForwardFill(entries, dateStr) == ScanBack[entries, dateStr, Len(entries)]

\* The two continue statements of lines 333-341.
SkipsPoint(recentPrices, liquidityDate) ==
    Len(recentPrices) < 2 \/ liquidityDate = NoDate

DefaultPMI == 50
RecentWindow == 30

\* Variant of the operator below: a point before every PMI observation takes
\* the oldest one.
PMIValueAtOrOldest(pmiEntries, pi) ==
    IF pi # 0 THEN pmiEntries[pi][2]
    ELSE IF Len(pmiEntries) = 0 THEN Num(DefaultPMI) ELSE pmiEntries[1][2]

\* Lines 311-318: the PMI value of the entry the scan stopped at, 50 when it
\* found none.
PMIValueAt(pmiEntries, pi) ==
    IF pi = 0 THEN Num(DefaultPMI) ELSE pmiEntries[pi][2]

\* Lines 321-329: the prices of the points not later than btcPoint, the last
\* 30 of them.
RecentPrices(btcPriceHistory, btcPoint) ==
    LET earlier == SelectSeq(btcPriceHistory,
                             LAMBDA p : p.timestamp <= btcPoint.timestamp)
    IN  SliceLast[[i \in 1..Len(earlier) |-> earlier[i].price], RecentWindow]

\* One iteration of the loop of lines 293-391: its local variables, whether
\* it pushes a point, and the point.
IndexHistoryStep[fedData \in Seq(Observation), tgaData \in Seq(Observation), rrpData \in Seq(Observation), btcPriceHistory \in Seq(PricePoint), liquidityEntries \in Seq(Int \X Number), pmiEntries \in Seq(Int \X Number), liquidityHistory \in Seq(Number), pmiHistoryValues \in Seq(Number), btcPoint \in PricePoint] ==
    LET dateStr == btcPoint.date
        li == ForwardFill(liquidityEntries, dateStr)
        liquidity == IF li = 0 THEN Zero ELSE liquidityEntries[li][2]
        liquidityDate == IF li = 0 THEN NoDate ELSE liquidityEntries[li][1]
        pi == ForwardFill(pmiEntries, dateStr)
        pmiValue == PMIValueAt(pmiEntries, pi)
        recentPrices == RecentPrices(btcPriceHistory, btcPoint)
        liquidityData ==
            [fedBalanceSheet |-> FindValueOrZero[fedData, liquidityDate],
             tga |-> FindValueOrZero[tgaData, liquidityDate],
             rrp |-> FindValueOrZero[rrpData, liquidityDate],
             liquidity |-> liquidity,
             date |-> liquidityDate]
        pmiData == [value |-> pmiValue, date |-> dateStr]
        btcPrice == [price |-> btcPoint.price, timestamp |-> btcPoint.timestamp]
        locals == [btcPoint |-> btcPoint, liquidity |-> liquidity,
                   liquidityDate |-> liquidityDate, pmiValue |-> pmiValue,
                   recentPrices |-> recentPrices]
    IN  IF SkipsPoint(recentPrices, liquidityDate)
        THEN [pushed |-> FALSE, locals |-> locals]
        ELSE CHOOSE step \in
                 { [pushed |-> TRUE, locals |-> locals,
                    liquidityData |-> liquidityData, pmiData |-> pmiData,
                    directionIndex |-> directionIndex,
                    point |-> [timestamp |-> btcPoint.timestamp,
                               date |-> dateStr,
                               index |-> directionIndex.index,
                               price |-> btcPoint.price]] :
                   directionIndex \in
                       { calculateBitcoinDirectionIndex(
                             liquidityData, liquidityHistory, pmiData,
                             pmiHistoryValues, btcPrice, recentPrices) } } : TRUE

\* The points pushed by the steps, in order.
PushedPoints(steps) ==
    LET pushing == SelectSeq(steps, LAMBDA st : st.pushed)
    IN  [i \in 1..Len(pushing) |-> pushing[i].point]

\* GET once the five fetches have answered: the sorted entries of the two
\* maps, the steps of the loop and the body of the response.
GetIndexHistory(timespan, fedData, tgaData, rrpData, btcPriceHistory, pmiHistory) ==
    LET liquidityMap == LiquidityMapFrom[fedData, tgaData, rrpData, 1, <<>>]
        pmiMap == PMIMapFrom[pmiHistory, 1, <<>>]
        liquidityHistory == MapValues(liquidityMap)
        pmiHistoryValues == [i \in 1..Len(pmiHistory) |-> pmiHistory[i].value]
        liquidityEntries == SortByDate[liquidityMap]
        pmiEntries == SortByDate[pmiMap]
        steps == [i \in 1..Len(btcPriceHistory) |->
                     IndexHistoryStep[fedData, tgaData, rrpData, btcPriceHistory,
                                      liquidityEntries, pmiEntries,
                                      liquidityHistory, pmiHistoryValues,
                                      btcPriceHistory[i]]]
        indexHistory == PushedPoints(steps)
    IN  IF InsufficientLiquidity(liquidityHistory)
        THEN [liquidityEntries |-> <<>>, pmiEntries |-> <<>>, steps |-> <<>>,
              status |-> 200,
              body |-> [data |-> <<>>, timespan |-> timespan, count |-> 0,
                        error |-> "Insufficient liquidity data"]]
        ELSE [liquidityEntries |-> liquidityEntries, pmiEntries |-> pmiEntries,
              steps |-> steps, status |-> 200,
              body |-> [data |-> indexHistory, timespan |-> timespan,
                        count |-> Len(indexHistory)]]

\* The series the fetches of the route answer with.  A FRED series is in
\* chronological order; a failed fetch answers with the empty series.
Obs(d, v) == [date |-> d, value |-> Num(v)]

FedSeries ==
    { <<>>, <<Obs(2, 800)>>, <<Obs(2, 800), Obs(4, 900)>>,
      <<Obs(2, 800), Obs(2, 900)>> }
TgaSeries ==
    { <<>>, <<Obs(2, 100), Obs(4, 120)>>, <<Obs(2, 100), Obs(2, 300)>>,
      <<Obs(4, 120)>> }
RrpSeries == { <<>>, <<Obs(2, 50), Obs(2, 70)>>, <<Obs(3, 60)>> }
PMISeries == { <<>>, <<Obs(1, 48), Obs(3, 52)>>, <<Obs(3, 52), Obs(3, 55)>> }

\* <<timestamp, price>> pairs as the price API lists them.
PriceSeries ==
    { <<>>, <<<<30, Num(100)>>>>,
      <<<<30, Num(100)>>, <<50, Num(101)>>, <<80, Num(102)>>, <<125, Num(105)>>>>,
      <<<<50, Num(100)>>, <<50, Num(101)>>>>,
      <<<<25, Num(100)>>, <<30, Num(101)>>, <<50, Num(102)>>>>,
      [i \in 1..9 |-> <<49 + i, IF i = 1 THEN Num(108) ELSE Num(100)>>] }

Timespans == {"1Y", "30D"}

\* What the FRED requests of the route are answered with: a failure, or the
\* observations newest first, here with one more observation without value.
Failed == [failed |-> TRUE]
Answered(series) ==
    [failed |-> FALSE,
     observations |-> <<[date |-> 5, value |-> Missing]>> \o Reverse(series)]

FredFetches(S) == {Failed} \cup {Answered(series) : series \in S}

\* A request to the index-history route, its fetches answered.
CallIndexHistory ==
    /\ ret.fn = "none"
    /\ \E timespan \in Timespans, fedFetch \in FredFetches(FedSeries),
          tgaFetch \in FredFetches(TgaSeries \ {<<>>}),
          rrpFetch \in FredFetches(RrpSeries \ {<<>>}),
          prices \in PriceSeries,
          pmiFetch \in FredFetches(PMISeries \ {<<>>}) :
          ret' = [fn |-> "indexHistory",
                  fetches |-> [fed |-> fedFetch, tga |-> tgaFetch,
                               rrp |-> rrpFetch, pmi |-> pmiFetch],
                  fedData |-> FetchFREDSeries(fedFetch),
                  tgaData |-> FetchFREDSeries(tgaFetch),
                  rrpData |-> FetchFREDSeries(rrpFetch),
                  btcPriceHistory |-> PricePointsOf(prices),
                  pmiHistory |-> FetchFREDSeries(pmiFetch),
                  out |-> GetIndexHistory(timespan, FetchFREDSeries(fedFetch),
                              FetchFREDSeries(tgaFetch), FetchFREDSeries(rrpFetch),
                              PricePointsOf(prices), FetchFREDSeries(pmiFetch))]
    /\ UNCHANGED <<prev, now, precision>>

(***************************************************************************)
(* src/app/api/dashboard/route.ts, GET (lines 88-155).                     *)
(***************************************************************************)
PMIHistoryLength == 12
PriceHistoryLength == 30

\* tgaData[i]?.value || 0
ValueAtOrZero[series \in Seq(Observation), i \in Nat] ==
    IF i \in 1..Len(series) THEN series[i].value ELSE Zero

\* GET once the five fetches have settled.  btcFetch.failed: fetchBitcoinPrice
\* threw, which rejects the Promise.all; reading .value of the last element
\* of an empty series throws as well.  Both end in the catch of line 148.
GetDashboard(fedData, tgaData, rrpData, btcFetch, pmi) ==
    IF btcFetch.failed \/ Len(fedData) = 0 \/ Len(tgaData) = 0 \/ Len(rrpData) = 0
    THEN [status |-> 500]
    ELSE LET latestFed == fedData[Len(fedData)]
             latestTGA == tgaData[Len(tgaData)]
             latestRRP == rrpData[Len(rrpData)]
             btcPrice == btcFetch.snapshot
             liquidity ==
                 [fedBalanceSheet |-> latestFed.value,
                  tga |-> latestTGA.value,
                  rrp |-> latestRRP.value,
                  liquidity |-> JsSub[JsSub[latestFed.value, latestTGA.value],
                                      latestRRP.value],
                  date |-> latestFed.date]
             liquidityHistory ==
                 [i \in 1..Len(fedData) |->
                     JsSub[JsSub[fedData[i].value, ValueAtOrZero[tgaData, i]],
                           ValueAtOrZero[rrpData, i]]]
             pmiHistory == Flat(pmi.value, PMIHistoryLength)
             btcPriceHistory == Flat(btcPrice.price, PriceHistoryLength)
             directionIndex ==
                 calculateBitcoinDirectionIndex(liquidity, liquidityHistory, pmi,
                                                pmiHistory, btcPrice,
                                                btcPriceHistory)
         IN  [status |-> 200,
              liquidityHistory |-> liquidityHistory,
              body |-> [bitcoinPrice |-> btcPrice, liquidity |-> liquidity,
                        pmi |-> pmi, directionIndex |-> directionIndex,
                        correlation |-> Zero]]

\* What fetchBitcoinPrice and fetchPMI settle with.
BtcFetches ==
    { [failed |-> TRUE],
      [failed |-> FALSE,
       snapshot |-> [price |-> Num(100), timestamp |-> now, change24h |-> Num(2)]],
      [failed |-> FALSE,
       snapshot |-> [price |-> Num(686), timestamp |-> now, change24h |-> Zero]] }

\* The fallback of fetchPMI (lines 80-85) and of the PMI route.
PMIFallback == [value |-> Num(DefaultPMI), date |-> DateOf[now], change |-> Zero]

\* observations.filter(obs => obs.value !== '.')
Valued(observations) == SelectSeq(observations, LAMBDA obs : obs.value # Missing)

\* s[s.length - 1 - k]
FromEnd(s, k) == s[Len(s) - k]

\* fetchPMI (lines 53-86) once its request has settled.  The response
\* holds the observations in the order FRED sent them.
FetchPMI(fetch) ==
    IF fetch.failed THEN PMIFallback
    ELSE IF Len(Valued(fetch.observations)) = 0 THEN PMIFallback
    ELSE [value |-> ParseFloat(FromEnd(Valued(fetch.observations), 0).value),
          date |-> FromEnd(fetch.observations, 0).date,
          change |->
              IF Len(Valued(fetch.observations)) > 1
              THEN JsSub[ParseFloat(FromEnd(Valued(fetch.observations), 0).value),
                         ParseFloat(FromEnd(Valued(fetch.observations), 1).value)]
              ELSE Zero]

\* What the NAPM request (limit 12, sort_order desc) is answered with: a
\* failure, or observations newest first.
PMIObservations ==
    { <<>>,
      <<[date |-> 3, value |-> Num(52)]>>,
      <<[date |-> 4, value |-> Num(52)], [date |-> 3, value |-> Num(48)]>>,
      <<[date |-> 4, value |-> Missing], [date |-> 3, value |-> Rat[457, 16]]>>,
      <<[date |-> 4, value |-> Num(50)], [date |-> 3, value |-> Missing]>>,
      <<[date |-> 4, value |-> Num(53)], [date |-> 3, value |-> Num(51)],
        [date |-> 2, value |-> Num(50)]>> }

PMIFetches == {Failed} \cup {[failed |-> FALSE, observations |-> o] : o \in PMIObservations}

\* A request to the dashboard route, its fetches settled.
CallDashboard ==
    /\ ret.fn = "none"
    /\ \E fedData \in FedSeries, tgaData \in TgaSeries, rrpData \in RrpSeries,
          btcFetch \in BtcFetches, pmiFetch \in PMIFetches :
          ret' = [fn |-> "dashboard", fedData |-> fedData, tgaData |-> tgaData,
                  rrpData |-> rrpData, btcFetch |-> btcFetch,
                  pmiFetch |-> pmiFetch, pmi |-> FetchPMI(pmiFetch),
                  out |-> GetDashboard(fedData, tgaData, rrpData, btcFetch,
                                       FetchPMI(pmiFetch))]
    /\ UNCHANGED <<prev, now, precision>>

(***************************************************************************)
(* src/app/api/fred/route.ts, the PMI route: GET (lines 422-483).          *)
(***************************************************************************)
\* GET once its request has settled; a failed request ends in the inner
\* catch (line 467) and the placeholder is returned.
GetPMI(fetch) ==
    IF fetch.failed \/ Len(Valued(fetch.observations)) = 0
    THEN [status |-> 200,
          body |-> [value |-> Num(DefaultPMI), date |-> DateOf[now],
                    change |-> Zero, source |-> "placeholder"]]
    ELSE LET observations ==
                 [i \in 1..Len(Valued(fetch.observations)) |->
                     [date |-> Valued(fetch.observations)[i].date,
                      value |-> ParseFloat(Valued(fetch.observations)[i].value)]]
             latest == FromEnd(observations, 0)
             previous == IF Len(observations) > 1 THEN FromEnd(observations, 1)
                         ELSE FromEnd(observations, 0)
         IN  [status |-> 200,
              body |-> [value |-> latest.value, date |-> latest.date,
                        change |-> JsSub[latest.value, previous.value],
                        source |-> "FRED_NAPM"]]

\* A request to the PMI route, its fetch settled.
CallPMI ==
    /\ ret.fn = "none"
    /\ \E pmiFetch \in PMIFetches :
          ret' = [fn |-> "pmi", pmiFetch |-> pmiFetch, out |-> GetPMI(pmiFetch)]
    /\ UNCHANGED <<prev, now, precision>>

\* The routes: requests served one at a time.
NextRoutes == CallIndexHistory \/ CallDashboard \/ CallPMI \/ Take \/ Tick

SpecRoutes == Init /\ [][NextRoutes]_vars

\* calculateBTCTrend called directly and through the index-history route.
\* The caller takes the result and keeps nothing of it.
Drop ==
    /\ ret.fn # "none"
    /\ ret' = NoCall
    /\ UNCHANGED <<prev, now, precision>>

NextTrend == CallBTCTrend \/ CallIndexHistory \/ Drop \/ Tick

SpecTrend == Init /\ [][NextTrend]_vars

\* The dashboard route alone, on the reduced floating-point format.
NextDashboard == CallDashboard \/ Take \/ Tick

SpecDashboard == InitFloat /\ [][NextDashboard]_vars

(***************************************************************************)
(* src/components/btc-chart.tsx, BTCChart: the merge of the price series   *)
(* with the index series (lines 111-200).  Timestamps are in hours.        *)
(***************************************************************************)
Tolerance == 24
FallbackIndex == 50
Infinity == MaxInt
Null == <<>>

\* typeof point.index === 'number' && !isNaN(point.index) && isFinite(point.index)
\* The JSON of the response carries NaN and the infinities as null.
IsValidIndex(index) == index \in Number

\* The forEach of lines 127-135, from element i on: the entries of indexMap
\* in insertion order, each <<timestamp, index>>.
\* A point of the index response.
ChartIndexPoint == [timestamp : Int, index : Number \cup {Null}]

IndexMapFrom[data \in Seq(ChartIndexPoint), i \in Nat, map \in Seq(Int \X Number)] ==
    IF i > Len(data) THEN map
    ELSE IndexMapFrom[data, i + 1,
             IF IsValidIndex(data[i].index)
             THEN MapSet[map, data[i].timestamp, data[i].index]
             ELSE map]

\* Lines 126-136.
IndexMapOf(indexData) ==
    IF indexData.defined /\ indexData.hasData /\ Len(indexData.data) > 0
    THEN IndexMapFrom[indexData.data, 1, <<>>]
    ELSE <<>>

\* indexMap.get(btcTimestamp): the index of the entry, Null without one.
MapGet[entries \in Seq(Int \X Number), key \in Int] ==
    IF \E i \in 1..Len(entries) : entries[i][1] = key
    THEN entries[CHOOSE i \in 1..Len(entries) : entries[i][1] = key][2]
    ELSE Null

\* Variants of the two operators below: a candidate at any distance, and
\* no fallback value.
IsCloserAtAnyDistance(diff, closestDiff) == diff < closestDiff

FinalIndexOfMatchOnly(matchedIndex, size) == matchedIndex

\* Line 158: diff < 86400000 && diff < closestDiff
IsCloser(diff, closestDiff) == diff < Tolerance /\ diff < closestDiff

\* Line 176: matchedIndex ?? (indexMap.size === 0 ? 50 : null)
FinalIndex(matchedIndex, size) ==
    IF matchedIndex # Null THEN matchedIndex
    ELSE IF size = 0 THEN Num(FallbackIndex) ELSE Null

\* The loop of lines 155-162 from entry i on; the closestIndex it ends with.
ClosestFrom[entries \in Seq(Int \X Number), btcTimestamp \in Int, i \in Nat, closestDiff \in Nat, closestIndex \in Number \cup {Null}] ==
    IF i > Len(entries) THEN closestIndex
    ELSE IF IsCloser(Abs[btcTimestamp - entries[i][1]], closestDiff)
         THEN ClosestFrom[entries, btcTimestamp, i + 1,
                          Abs[btcTimestamp - entries[i][1]], entries[i][2]]
         ELSE ClosestFrom[entries, btcTimestamp, i + 1, closestDiff, closestIndex]

\* Lines 142-165: the exact match first, else the closest within tolerance.
MatchedIndex(indexMap, btcTimestamp) ==
    LET exactMatch == MapGet[indexMap, btcTimestamp]
    IN  IF exactMatch # Null THEN exactMatch
        ELSE ClosestFrom[indexMap, btcTimestamp, 1, Infinity, Null]

\* One call of the callback of lines 140-187: whether it pushes, and what.
MergeStep[indexMap \in Seq(Int \X Number), btcPoint \in PricePoint] ==
    LET matchedIndex == MatchedIndex(indexMap, btcPoint.timestamp)
        finalIndex == FinalIndex(matchedIndex, Len(indexMap))
    IN  IF (Len(indexMap) > 0 /\ matchedIndex = Null) \/ finalIndex = Null
        THEN [pushed |-> FALSE, btcPoint |-> btcPoint]
        ELSE [pushed |-> TRUE, btcPoint |-> btcPoint,
              point |-> [timestamp |-> btcPoint.timestamp,
                         date |-> btcPoint.date,
                         price |-> btcPoint.price,
                         index |-> finalIndex]]

\* Variant of the operator below: e placed last, whatever its timestamp.
InsertPointLast(sorted, e) == Append(sorted, e)

\* One step of the sort: e placed after the points whose timestamp is not
\* later (Array.prototype.sort is stable).
InsertByTimestamp(sorted, e) ==
    LET k == Cardinality({i \in 1..Len(sorted) :
                             sorted[i].timestamp <= e.timestamp})
    IN  SubSeq(sorted, 1, k) \o <<e>> \o SubSeq(sorted, k + 1, Len(sorted))

\* mergedData.sort((a, b) => a.timestamp - b.timestamp)
RECURSIVE SortByTimestamp(_)
SortByTimestamp(points) ==
    IF Len(points) = 0 THEN <<>>
    ELSE InsertByTimestamp(SortByTimestamp(SubSeq(points, 1, Len(points) - 1)),
                           points[Len(points)])

\* Lines 111-200 of one render: indexMap, the steps of the merge and
\* chartData (Null when nothing is drawn).
BTCChartMerge(timespan, btcQuery, indexQuery) ==
    IF ~(btcQuery.hasData /\ ~btcQuery.isError)
    THEN [merged |-> FALSE, chartData |-> Null]
    ELSE LET indexMap == IndexMapOf(indexQuery)
             steps == [i \in 1..Len(btcQuery.data) |->
                          MergeStep[indexMap, btcQuery.data[i]]]
             mergedData == SortByTimestamp(PushedPoints(steps))
         IN  [merged |-> TRUE, indexMap |-> indexMap, steps |-> steps,
              chartData |->
                  IF Len(mergedData) > 0
                  THEN [data |-> mergedData, timespan |-> timespan,
                        count |-> Len(mergedData)]
                  ELSE Null]

\* What the two queries of the chart hold at a render.
ChartTimestamps == {100, 115, 118, 124, 125, 155}

ChartPrices ==
    {<<>>} \cup {<<<<t, Num(t)>>>> : t \in ChartTimestamps}
           \cup {<<<<t, Num(t)>>, <<u, Num(u + 1)>>>> :
                    t \in ChartTimestamps, u \in ChartTimestamps}
           \cup {<<<<118, Num(118)>>, <<124, Num(124)>>, <<100, Num(100)>>>>,
                 <<<<100, Num(100)>>, <<124, Num(124)>>, <<118, Num(118)>>>>}

BtcQueries ==
    {[hasData |-> FALSE, isError |-> e] : e \in BOOLEAN}
    \cup {[hasData |-> TRUE, isError |-> e, data |-> PricePointsOf(prices)] :
             e \in BOOLEAN, prices \in ChartPrices}

IndexPoint(t, index) == [timestamp |-> t, index |-> index]

IndexSeries ==
    { <<>>,
      <<IndexPoint(100, Num(40))>>,
      <<IndexPoint(100, Num(0))>>,
      <<IndexPoint(100, Null)>>,
      <<IndexPoint(100, Num(40)), IndexPoint(130, Num(60))>>,
      <<IndexPoint(130, Num(60)), IndexPoint(100, Num(40))>>,
      <<IndexPoint(100, Num(40)), IndexPoint(100, Num(45))>>,
      <<IndexPoint(100, Null), IndexPoint(130, Num(60))>> }

IndexQueries ==
    {[defined |-> FALSE], [defined |-> TRUE, hasData |-> FALSE]}
    \cup {[defined |-> TRUE, hasData |-> TRUE, data |-> d] : d \in IndexSeries}

\* A render of BTCChart with the data its two queries hold.
RenderChart ==
    /\ ret.fn = "none"
    /\ \E timespan \in Timespans, btcQuery \in BtcQueries,
          indexQuery \in IndexQueries :
          ret' = [fn |-> "chart", btcQuery |-> btcQuery,
                  indexQuery |-> indexQuery,
                  out |-> BTCChartMerge(timespan, btcQuery, indexQuery)]
    /\ UNCHANGED <<prev, now, precision>>

NextChart == RenderChart \/ Take \/ Tick

SpecChart == Init /\ [][NextChart]_vars

(***************************************************************************)
(* src/app/api/bitcoin/history/route.ts: GET and fetchWithRetry.  A        *)
(* request is a process: ret.pc is "requesting" while axios.get is awaited,*)
(* "waiting" while the timer of a retry is pending, "responded" once GET   *)
(* has answered.  ret.outcomes lists what the requests issued so far       *)
(* settled with, ret.waits the delays of the timers set so far.            *)
(***************************************************************************)
DefaultMaxRetries == 3
RateLimitWait == 5000
RetryWait == 1000
TooManyRequests == 429

\* The messages of the errors a request can fail with, and the one
\* fetchWithRetry throws itself (line 56).
RateLimitMessage == "API rate limit exceeded. Please try again in a moment."
StatusMessage(status) ==
    IF status = TooManyRequests THEN "Request failed with status code 429"
    ELSE "Request failed with status code 500"
TimeoutMessage == "timeout of 30000ms exceeded"
ConnectMessage == "connect ETIMEDOUT 2606:4700::6812:429a:443"

\* errorMessage.includes("429") || errorMessage.includes("rate limit")
NamesRateLimit(errorMessage) ==
    errorMessage \in {RateLimitMessage, StatusMessage(TooManyRequests),
                      ConnectMessage}

\* An error with a response has its status; NoStatus stands for an error
\* without response (error.response undefined).
NoStatus == 0
HttpError(status) ==
    [ok |-> FALSE, status |-> status, message |-> StatusMessage(status)]
NetworkError(message) == [ok |-> FALSE, status |-> NoStatus, message |-> message]
Success(prices) == [ok |-> TRUE, prices |-> prices]

\* What a request to the price API settles with.
UpstreamPrices ==
    { <<>>, <<<<30, Num(100)>>>>, <<<<50, Num(101)>>, <<30, Num(100)>>>> }

Outcomes ==
    {Success(prices) : prices \in UpstreamPrices}
        \cup {HttpError(TooManyRequests), HttpError(500),
              NetworkError(TimeoutMessage), NetworkError(ConnectMessage)}

\* new Date(timestamp).toISOString(): the day and the hour of the instant.
ISOString(timestamp) == <<timestamp \div HoursPerDay, timestamp % HoursPerDay>>

\* Variant of the operator below: the same delay after every error.
WaitTimeFlat(error, attempt) == RetryWait * attempt

\* Lines 48 and 65: the delay before the next attempt.
WaitTime(error, attempt) ==
    IF error.status = TooManyRequests THEN RateLimitWait * attempt
    ELSE RetryWait * attempt

\* Lines 45-62 when attempt was the last one: what fetchWithRetry throws.
ThrownAfter(error) ==
    IF error.status = TooManyRequests THEN RateLimitMessage ELSE error.message

\* GET from line 88 on, fetchWithRetry having returned marketData.
RespondWithData(timespan, marketData) ==
    LET data == [i \in 1..Len(marketData.prices) |->
                    [timestamp |-> marketData.prices[i][1],
                     date |-> ISOString(marketData.prices[i][1]),
                     price |-> marketData.prices[i][2]]]
    IN  IF Len(data) = 0
        THEN [status |-> 500,
              body |-> [error |-> "No Bitcoin price data returned from API"]]
        ELSE [status |-> 200,
              body |-> [data |-> data, timespan |-> timespan,
                        count |-> Len(data)]]

\* The catch of GET (lines 107-124), fetchWithRetry having thrown.
RespondWithError(errorMessage) ==
    IF NamesRateLimit(errorMessage)
    THEN [status |-> TooManyRequests, body |-> [error |-> RateLimitMessage]]
    ELSE [status |-> 500,
          body |-> [error |-> <<"Failed to fetch Bitcoin historical data: ",
                                errorMessage>>]]

HistoryRunning == ret.fn = "bitcoinHistory"

RetryLimits == 0..DefaultMaxRetries

\* GET is called: fetchWithRetry enters its loop and issues the first
\* request; with no attempt allowed it throws at line 69.
StartHistory ==
    /\ ret.fn = "none"
    /\ \E timespan \in Timespans, maxRetries \in RetryLimits :
          ret' = IF 1 <= maxRetries
                 THEN [fn |-> "bitcoinHistory", timespan |-> timespan,
                       maxRetries |-> maxRetries, pc |-> "requesting",
                       attempt |-> 1, requests |-> 1, outcomes |-> <<>>,
                       waits |-> <<>>]
                 ELSE [fn |-> "bitcoinHistory", timespan |-> timespan,
                       maxRetries |-> maxRetries, pc |-> "responded",
                       attempt |-> 1, requests |-> 0, outcomes |-> <<>>,
                       waits |-> <<>>, ended |-> "thrown",
                       out |-> RespondWithError("Max retries exceeded")]
    /\ UNCHANGED <<prev, now, precision>>

\* The request in flight settles: fetchWithRetry returns its data, sets the
\* timer of the next attempt, or throws; GET answers when it has ended.
RequestSettles ==
    /\ HistoryRunning
    /\ ret.pc = "requesting"
    /\ \E outcome \in Outcomes :
          LET settled == [ret EXCEPT !.outcomes = Append(@, outcome)]
          IN  ret' =
                IF outcome.ok
                THEN [fn |-> "bitcoinHistory", timespan |-> ret.timespan,
                      maxRetries |-> ret.maxRetries, pc |-> "responded",
                      attempt |-> ret.attempt, requests |-> ret.requests,
                      outcomes |-> settled.outcomes, waits |-> ret.waits,
                      ended |-> "returned", marketData |-> outcome,
                      out |-> RespondWithData(ret.timespan, outcome)]
                ELSE IF ret.attempt < ret.maxRetries
                THEN [settled EXCEPT
                         !.pc = "waiting",
                         !.waits = Append(@, WaitTime(outcome, ret.attempt))]
                ELSE [fn |-> "bitcoinHistory", timespan |-> ret.timespan,
                      maxRetries |-> ret.maxRetries, pc |-> "responded",
                      attempt |-> ret.attempt, requests |-> ret.requests,
                      outcomes |-> settled.outcomes, waits |-> ret.waits,
                      ended |-> "thrown",
                      out |-> RespondWithError(ThrownAfter(outcome))]
    /\ UNCHANGED <<prev, now, precision>>

\* The timer of a retry fires: the loop goes on with the next attempt.
TimerFires ==
    /\ HistoryRunning
    /\ ret.pc = "waiting"
    /\ ret' = [ret EXCEPT !.pc = "requesting", !.attempt = @ + 1,
                          !.requests = @ + 1]
    /\ UNCHANGED <<prev, now, precision>>

\* The caller takes the response.
TakeResponse ==
    /\ HistoryRunning
    /\ ret.pc = "responded"
    /\ ret' = NoCall
    /\ UNCHANGED <<prev, now, precision>>

NextHistory == StartHistory \/ RequestSettles \/ TimerFires \/ TakeResponse \/ Tick

\* A request in flight settles (axios gives up after 30 s, line 40) and a
\* timer that was set fires.
SpecHistory ==
    /\ Init
    /\ [][NextHistory]_vars
    /\ WF_vars(RequestSettles)
    /\ WF_vars(TimerFires)

(***************************************************************************)
(* src/components/btc-chart.tsx, Dashboard (lines 453-600): the state of   *)
(* the component and the fetchData calls in flight.  ret.started counts the*)
(* calls of fetchData, ret.inFlight holds those whose fetch has not        *)
(* settled, ret.succeeded those that set the data.                         *)
(***************************************************************************)
MaxRequests == 3

\* The body the route answers the request-th call with; NoData, NoError and
\* NeverUpdated are the null of data, error and lastUpdate (lines 454-457).
DashboardDataOf(request) == [request |-> request]
NoData == DashboardDataOf(0)
NoError == ""
NeverUpdated == -1

\* What fetch('/api/dashboard') settles with: a response that is ok, a
\* response that is not, a rejection with or without a message.
FetchOutcomes ==
    { [ok |-> TRUE], [ok |-> FALSE, message |-> "Failed to fetch dashboard data"],
      [ok |-> FALSE, message |-> "Failed to fetch"], [ok |-> FALSE, message |-> ""] }

\* err.message || 'Failed to load data'
MessageOrDefault(message) == IF message = "" THEN "Failed to load data" ELSE message

Mounted == ret.fn = "Dashboard"

\* fetchData up to its await (lines 460-463).
StartFetch(state) ==
    [state EXCEPT !.loading = TRUE, !.error = NoError, !.started = @ + 1,
                  !.inFlight = @ \cup {state.started + 1}]

\* fetchData from its await on (lines 464-475), the fetch of request
\* having settled with outcome.
SettleFetch(state, request, outcome) ==
    IF outcome.ok
    THEN [state EXCEPT !.data = DashboardDataOf(request), !.lastUpdate = now,
                       !.loading = FALSE, !.inFlight = @ \ {request},
                       !.succeeded = @ \cup {request}]
    ELSE [state EXCEPT !.error = MessageOrDefault(outcome.message),
                       !.loading = FALSE, !.inFlight = @ \ {request}]

\* The component mounts: the initial state of lines 454-457, then the effect
\* of lines 478-483 calls fetchData and sets the interval.
Mount ==
    /\ ret.fn = "none"
    /\ ret' = StartFetch([fn |-> "Dashboard", data |-> NoData, loading |-> TRUE,
                          error |-> NoError, lastUpdate |-> NeverUpdated,
                          started |-> 0,
                          inFlight |-> {}, succeeded |-> {}])
    /\ UNCHANGED <<prev, now, precision>>

\* The 60-second interval fires.
IntervalFires ==
    /\ Mounted
    /\ ret.started < MaxRequests
    /\ ret' = StartFetch(ret)
    /\ UNCHANGED <<prev, now, precision>>

\* The Retry button, rendered when there is an error and no data and the
\* skeleton is not shown (lines 520, 533-548).
ClickRetry ==
    /\ Mounted
    /\ ret.started < MaxRequests
    /\ ~(ret.loading /\ ret.data = NoData)
    /\ ret.error # NoError /\ ret.data = NoData
    /\ ret' = StartFetch(ret)
    /\ UNCHANGED <<prev, now, precision>>

\* The Refresh button, rendered with the data and disabled while loading
\* (lines 569-576).
ClickRefresh ==
    /\ Mounted
    /\ ret.started < MaxRequests
    /\ ret.data # NoData
    /\ ~ret.loading
    /\ ret' = StartFetch(ret)
    /\ UNCHANGED <<prev, now, precision>>

\* The fetch of one of the calls in flight settles.
FetchSettles ==
    /\ Mounted
    /\ \E request \in ret.inFlight, outcome \in FetchOutcomes :
          ret' = SettleFetch(ret, request, outcome)
    /\ UNCHANGED <<prev, now, precision>>

\* The component unmounts with no call in flight; the interval is cleared.
Unmount ==
    /\ Mounted
    /\ ret.inFlight = {}
    /\ ret' = NoCall
    /\ UNCHANGED <<prev, now, precision>>

NextComponent == Mount \/ IntervalFires \/ ClickRetry \/ ClickRefresh \/ FetchSettles \/ Unmount \/ Tick

SpecComponent == Init /\ [][NextComponent]_vars

(***************************************************************************)
(* The mathematics the properties are stated in: exact, whatever the       *)
(* arithmetic of the program is.                                           *)
(***************************************************************************)
SumOf[s \in Seq(Number)] == IF Len(s) = 0 THEN Zero ELSE Add[s[1], SumOf[Tail(s)]]

\* The arithmetic mean; 0 for the empty sample.
MeanOf(s) == IF Len(s) = 0 THEN Zero ELSE Quot[SumOf[s], Num(Len(s))]

\* The sum of squared deviations from the mean, divided by N.
PopulationVariance(s) ==
    LET m == MeanOf(s)
    IN  Quot[SumOf[[i \in 1..Len(s) |-> Mul[Sub[s[i], m], Sub[s[i], m]]]], Num(Len(s))]

\* The last k elements of s, all of them when fewer exist.
LastOf(s, k) ==
    LET m == IF Len(s) < k THEN Len(s) ELSE k
    IN  [i \in 1..m |-> s[Len(s) - m + i]]

Clamp(x, lo, hi) == IF Lt[x, lo] THEN lo ELSE IF Lt[hi, x] THEN hi ELSE x

IsConstant(s) == \A i \in 1..Len(s) : s[i] = s[1]

Avg7(h) == MeanOf(LastOf(h, 7))
Avg30(h) == MeanOf(LastOf(h, 30))

\* The bucket of an index under the thresholds 20, 40, 60, 80.
Bucket(x) ==
    IF Lt[x, Num(20)] THEN "very_bearish"
    ELSE IF Lt[x, Num(40)] THEN "bearish"
    ELSE IF Lt[x, Num(60)] THEN "neutral"
    ELSE IF Lt[x, Num(80)] THEN "bullish"
    ELSE "very_bullish"

\* r is x rounded to 2 decimal places: a multiple of 1/100 within 1/200 of x.
IsRounded2(r, x) ==
    /\ Mul[r, Num(100)][2] = 1
    /\ Le[Sub[r, x], <<1, 200>>]
    /\ Le[Sub[x, r], <<1, 200>>]

\* s is the square root of v, up to the rounding of an irrational root.
IsRootOf(s, v) ==
    /\ Lt[Zero, s]
    /\ Le[Sub[Mul[s, s], v], Quot[v, Num(2 ^ (MantissaBits - 2))]]
    /\ Le[Sub[v, Mul[s, s]], Quot[v, Num(2 ^ (MantissaBits - 2))]]

IndexReturned == ret.fn = "calculateBitcoinDirectionIndex"
StatsReturned == ret.fn = "calculateStats"
ZScoreReturned == ret.fn = "calculateZScore"
TrendReturned == ret.fn = "calculateBTCTrend"

\* raw = 0.40 * clamp(liquidityZ, -2, 2)/2 + 0.35 * clamp(pmiZ, -2, 2)/2
\*       + 0.25 * trend, of the returned components.
RawOf(out) ==
    Add[Add[Mul[<<2, 5>>, Quot[Clamp(out.liquidityZScore, Num(-2), Num(2)), Num(2)]],
            Mul[<<7, 20>>, Quot[Clamp(out.pmiZScore, Num(-2), Num(2)), Num(2)]]],
        Mul[<<1, 4>>, out.btcTrend]]

C2_InterpretationIsBucketOfIndex ==
    IndexReturned => ret.out.interpretation = Bucket(ret.out.index)

\* C3: with the PMI value 50, every PMI history entry 50, the liquidity value
\* equal to the mean of the liquidity history and all prices of the history
\* equal, the index is 50 and the interpretation neutral, for every length
\* of the three histories.
C3_NeutralInputsGiveFifty ==
    ( /\ IndexReturned
      /\ ret.pmi.value = Num(50)
      /\ \A i \in 1..Len(ret.pmiHistory) : ret.pmiHistory[i] = Num(50)
      /\ ret.liquidity.liquidity = MeanOf(ret.liquidityHistory)
      /\ IsConstant(ret.btcPriceHistory) )
    => ret.out.index = Num(50) /\ ret.out.interpretation = "neutral"

\* C4: the index returned is ((raw + 1) / 2) * 100 rounded to 2 decimal
\* places, where raw = 0.40 * clamp(liquidityZ, -2, 2)/2
\* + 0.35 * clamp(pmiZ, -2, 2)/2 + 0.25 * trend, and raw lies in [-1, 1].
C4_IndexIsRescaledRaw ==
    IndexReturned =>
        LET raw == RawOf(ret.out)
        IN  /\ Le[Num(-1), raw] /\ Le[raw, One]
            /\ IsRounded2(ret.out.index,
                          Mul[Quot[Add[raw, One], Num(2)], Num(100)])

\* The rounding changes the value: the rescaled raw index has more than two
\* decimals.
C4_Witness ==
    /\ IndexReturned
    /\ ret.out.index #
           Mul[Quot[Add[RawOf(ret.out), One], Num(2)], Num(100)]
    /\ Lt[ret.out.liquidityZScore, Num(-2)]

(***************************************************************************)
(* Properties of calculateStats and calculateZScore.                       *)
(***************************************************************************)
\* C5: calculateStats never returns stdDev = 0: the empty sample gives
\* {mean: 0, stdDev: 1}; a sample whose values are all c gives
\* {mean: c, stdDev: 1}; every other sample gives the arithmetic mean and
\* the population standard deviation (squared deviations divided by N),
\* which is > 0.  The third case is compared with the exact values where the
\* arithmetic is exact.
C5_StatsNeverZeroDeviation ==
    StatsReturned =>
        /\ ~IsZero[ret.out.stdDev]
        /\ Len(ret.values) = 0 => ret.out = [mean |-> Zero, stdDev |-> One]
        /\ (Len(ret.values) > 0 /\ IsConstant(ret.values))
               => ret.out = [mean |-> ret.values[1], stdDev |-> One]
        /\ ~IsConstant(ret.values) =>
               /\ Lt[Zero, ret.out.stdDev]
               /\ precision = 0 =>
                      /\ ret.out.mean = MeanOf(ret.values)
                      /\ IsRootOf(ret.out.stdDev, PopulationVariance(ret.values))

\* C6: calculateZScore(v, m, s) is (v - m) / s for s > 0 and 0 for s = 0.
C6_ZScore ==
    ZScoreReturned =>
        /\ Lt[Zero, ret.stdDev] =>
               ret.out = Quot[Sub[ret.value, ret.mean], ret.stdDev]
        /\ IsZero[ret.stdDev] => ret.out = Zero

\* A zero deviation with a value off the mean, and a fractional deviation.
C6_Witness ==
    /\ ZScoreReturned
    /\ \/ IsZero[ret.stdDev] /\ ret.value # ret.mean /\ ret.out = Zero
       \/ ret.stdDev = <<1, 3>> /\ ret.value = Num(5) /\ ret.mean = Num(0)
             /\ ret.out = Num(15)

\* C7: the PMI z-score measures the deviation from 50: for every PMI
\* history it is 0 when pmi.value = 50, positive when pmi.value > 50 and
\* negative when pmi.value < 50.
C7_PMIZScoreSignFollowsFifty ==
    IndexReturned =>
        /\ ret.pmi.value = Num(50) => IsZero[ret.out.pmiZScore]
        /\ Lt[Num(50), ret.pmi.value] => Lt[Zero, ret.out.pmiZScore]
        /\ Lt[ret.pmi.value, Num(50)] => Lt[ret.out.pmiZScore, Zero]

(***************************************************************************)
(* Properties of calculateBTCTrend.                                        *)
(***************************************************************************)
\* C8: calculateBTCTrend returns 0 for every current price when the history
\* has fewer than 2 elements.
C8_ShortHistoryGivesZero ==
    (TrendReturned /\ Len(ret.historicalPrices) < 2) => ret.out = Zero

\* A single price that differs from the current price.
C8_Witness ==
    /\ TrendReturned
    /\ Len(ret.historicalPrices) = 1
    /\ ret.historicalPrices[1] # ret.currentPrice
    /\ ~IsZero[ret.historicalPrices[1]]
    /\ ret.out = Zero

\* C9: for a history of at least 2 elements calculateBTCTrend returns
\* clamp(10 * (avg7 - avg30) / avg30, -1, 1), avg7 the mean of the last 7 and
\* avg30 the mean of the last 30 elements (all when fewer exist), and 0 when
\* avg30 = 0; the result is in [-1, 1].
C9_TrendFormula ==
    (TrendReturned /\ Len(ret.historicalPrices) >= 2) =>
        LET avg7 == Avg7(ret.historicalPrices)
            avg30 == Avg30(ret.historicalPrices)
        IN  /\ ret.out = IF IsZero[avg30] THEN Zero
                         ELSE Clamp(Quot[Mul[Num(10), Sub[avg7, avg30]], avg30],
                                    Num(-1), One)
            /\ Le[Num(-1), ret.out] /\ Le[ret.out, One]

\* A history longer than the medium window with a trend inside the clamp.
C9_Witness ==
    /\ TrendReturned
    /\ Len(ret.historicalPrices) > 30
    /\ Lt[Num(-1), ret.out] /\ Lt[ret.out, Zero]

\* The two trend results in hand: the one taken last and the one returned.
TwoTrends ==
    /\ prev.fn = "calculateBTCTrend" /\ TrendReturned
    /\ Len(prev.historicalPrices) >= 2 /\ Len(ret.historicalPrices) >= 2

\* avg7 - avg30
Difference(h) == Sub[Avg7(h), Avg30(h)]

\* C10, as stated: for two histories h1, h2 of length >= 2 with
\* avg7(h1) - avg30(h1) <= avg7(h2) - avg30(h2), the trend of h1 is at most
\* the trend of h2.
C10_MonotoneInDifference ==
    ( /\ TwoTrends
      /\ Le[Difference(prev.historicalPrices), Difference(ret.historicalPrices)] )
    => Le[prev.out, ret.out]

\* C10, amended: the trend is non-decreasing in the relative difference
\* (avg7 - avg30) / avg30 of histories with avg30 # 0, and in the difference
\* avg7 - avg30 among histories with one and the same positive avg30.
C10_MonotoneInRelativeDifference ==
    TwoTrends =>
        LET h1 == prev.historicalPrices
            h2 == ret.historicalPrices
        IN  /\ ( /\ ~IsZero[Avg30(h1)] /\ ~IsZero[Avg30(h2)]
                 /\ Le[Quot[Difference(h1), Avg30(h1)],
                       Quot[Difference(h2), Avg30(h2)]] )
               => Le[prev.out, ret.out]
            /\ ( /\ Avg30(h1) = Avg30(h2) /\ Lt[Zero, Avg30(h1)]
                 /\ Le[Difference(h1), Difference(h2)] )
               => Le[prev.out, ret.out]

\* Two histories with the same positive avg30, the second with the larger
\* difference and the larger trend.
C10_Witness ==
    /\ TwoTrends
    /\ Avg30(prev.historicalPrices) = Avg30(ret.historicalPrices)
    /\ Lt[Zero, Avg30(ret.historicalPrices)]
    /\ Lt[Difference(prev.historicalPrices), Difference(ret.historicalPrices)]
    /\ Lt[prev.out, ret.out]

\* The call returned, made again with the btcPrice snapshot of price p.
IndexWithPrice(p) ==
    calculateBitcoinDirectionIndex(ret.liquidity, ret.liquidityHistory, ret.pmi,
                                   ret.pmiHistory, [price |-> p],
                                   ret.btcPriceHistory)

\* C11: the current price does not influence the result: two calls of
\* calculateBTCTrend with the same history and any two current prices return
\* the same trend, and a call of calculateBitcoinDirectionIndex made again
\* with any other btcPrice snapshot returns the same index, z-scores,
\* btcTrend and interpretation.
C11_CurrentPriceIgnored ==
    /\ ( /\ prev.fn = "calculateBTCTrend" /\ TrendReturned
         /\ prev.historicalPrices = ret.historicalPrices )
       => prev.out = ret.out
    /\ IndexReturned =>
           \A p \in CurrentPrices :
               LET other == IndexWithPrice(p)
               IN  /\ other.index = ret.out.index
                   /\ other.liquidityZScore = ret.out.liquidityZScore
                   /\ other.pmiZScore = ret.out.pmiZScore
                   /\ other.btcTrend = ret.out.btcTrend
                   /\ other.interpretation = ret.out.interpretation

\* Two trend calls on one history with a trend other than 0, made with
\* different current prices.
C11_Witness ==
    /\ prev.fn = "calculateBTCTrend" /\ TrendReturned
    /\ prev.historicalPrices = ret.historicalPrices
    /\ prev.currentPrice # ret.currentPrice
    /\ ~IsZero[ret.out]

(***************************************************************************)
(* The routes.                                                             *)
(***************************************************************************)
IndexHistoryReturned == ret.fn = "indexHistory"

\* The positions of the entries dated dateStr or earlier.
NotLater(entries, dateStr) == {k \in 1..Len(entries) : entries[k][1] <= dateStr}

\* The entry of greatest date among those dated dateStr or earlier.
IsLatestNotLater(entries, dateStr, k) ==
    /\ k \in NotLater(entries, dateStr)
    /\ \A j \in NotLater(entries, dateStr) : entries[j][1] <= entries[k][1]

\* C12: in the index-history route the liquidity and the PMI joined to a
\* price point dated d are those of the entry with the greatest date <= d;
\* when no entry is dated d or earlier the join yields no value (no liquidity
\* date, and the default 50 for the PMI).
C12_ForwardFillJoin ==
    IndexHistoryReturned =>
        \A i \in 1..Len(ret.out.steps) :
            LET st == ret.out.steps[i].locals
                d == st.btcPoint.date
                le == ret.out.liquidityEntries
                pe == ret.out.pmiEntries
            IN  /\ IF NotLater(le, d) = {}
                   THEN st.liquidityDate = NoDate
                   ELSE \E k \in 1..Len(le) :
                            /\ IsLatestNotLater(le, d, k)
                            /\ st.liquidityDate = le[k][1]
                            /\ st.liquidity = le[k][2]
                /\ IF NotLater(pe, d) = {}
                   THEN st.pmiValue = Num(DefaultPMI)
                   ELSE \E k \in 1..Len(pe) :
                            /\ IsLatestNotLater(pe, d, k)
                            /\ st.pmiValue = pe[k][2]

\* Two entries A and B; one point before A, one between A and B, one after B.
C12_Witness ==
    /\ IndexHistoryReturned
    /\ Len(ret.out.liquidityEntries) = 2
    /\ \E a, b, c \in 1..Len(ret.out.steps) :
          LET le == ret.out.liquidityEntries
              at(i) == ret.out.steps[i].locals
          IN  /\ at(a).btcPoint.date < le[1][1]
              /\ at(a).liquidityDate = NoDate
              /\ le[1][1] < at(b).btcPoint.date
              /\ at(b).btcPoint.date < le[2][1]
              /\ at(b).liquidity = le[1][2]
              /\ le[2][1] < at(c).btcPoint.date
              /\ at(c).liquidity = le[2][2]
              /\ le[1][2] # le[2][2]

\* The value of the last observation of the series dated date, 0 without one.
LastValueOrZero(series, date) ==
    LET hits == {i \in 1..Len(series) : series[i].date = date}
    IN  IF hits = {} THEN Zero
        ELSE series[CHOOSE i \in hits : \A j \in hits : j <= i].value

\* C13: when a series of the index-history route repeats a date, the value
\* aligned to that date is that of the last observation so dated, for each
\* of the Fed balance sheet, the TGA, the RRP and the PMI.
C13_LastObservationWins ==
    IndexHistoryReturned =>
        /\ \A k \in 1..Len(ret.out.liquidityEntries) :
              LET e == ret.out.liquidityEntries[k]
              IN  e[2] = Sub[Sub[LastValueOrZero(ret.fedData, e[1]),
                                 LastValueOrZero(ret.tgaData, e[1])],
                             LastValueOrZero(ret.rrpData, e[1])]
        /\ \A k \in 1..Len(ret.out.pmiEntries) :
              LET e == ret.out.pmiEntries[k]
              IN  e[2] = LastValueOrZero(ret.pmiHistory, e[1])

DashboardReturned == ret.fn = "dashboard"

\* liquidity = fedBalanceSheet - tga - rrp
IsNetLiquidity(snapshot) ==
    snapshot.liquidity =
        Sub[Sub[snapshot.fedBalanceSheet, snapshot.tga], snapshot.rrp]

\* C14: every LiquidityData snapshot the dashboard route and the
\* index-history route construct has liquidity = fedBalanceSheet - tga - rrp,
\* whatever the dates of the input series.
C14_SnapshotIsNetLiquidity ==
    /\ IndexHistoryReturned =>
          \A i \in 1..Len(ret.out.steps) :
              ret.out.steps[i].pushed =>
                  IsNetLiquidity(ret.out.steps[i].liquidityData)
    /\ (DashboardReturned /\ ret.out.status = 200) =>
          IsNetLiquidity(ret.out.body.liquidity)

\* (a) at least two price observations are not later than the point.
HasTwoPrices(p) ==
    Cardinality({j \in 1..Len(ret.btcPriceHistory) :
                    ret.btcPriceHistory[j].timestamp <= p.timestamp}) >= 2

\* (b) some liquidity observation is dated the point's date or earlier.
HasLiquidity(p) == \E k \in 1..Len(ret.fedData) : ret.fedData[k].date <= p.date

EmittingPoints ==
    SelectSeq(ret.btcPriceHistory, LAMBDA p : HasTwoPrices(p) /\ HasLiquidity(p))

\* C20: the index-history route emits a point for exactly the price points
\* with (a) two price observations not later than them and (b) a liquidity
\* observation dated not later than them, in the order of the price series,
\* each with the price point's own timestamp, date and price, and count is
\* the number of emitted points.
C20_EmittedPoints ==
    IndexHistoryReturned =>
        LET data == ret.out.body.data
        IN  /\ Len(data) = Len(EmittingPoints)
            /\ \A i \in 1..Len(data) :
                  /\ data[i].timestamp = EmittingPoints[i].timestamp
                  /\ data[i].date = EmittingPoints[i].date
                  /\ data[i].price = EmittingPoints[i].price
            /\ ret.out.body.count = Len(data)

\* One response with a point short of prices, a point with two prices but no
\* liquidity yet, and an emitted point stamped later than the clock.
C20_Witness ==
    /\ IndexHistoryReturned
    /\ Len(ret.out.body.data) >= 1
    /\ ret.out.body.data[1].timestamp > now
    /\ \E i, j \in 1..Len(ret.btcPriceHistory) :
          /\ ~HasTwoPrices(ret.btcPriceHistory[i])
          /\ HasTwoPrices(ret.btcPriceHistory[j])
          /\ ~HasLiquidity(ret.btcPriceHistory[j])

(***************************************************************************)
(* The chart.                                                              *)
(***************************************************************************)
ChartMerged == ret.fn = "chart" /\ ret.out.merged

\* The valid index points of the response the chart holds.
ValidIndexPoints ==
    IF ret.indexQuery.defined /\ ret.indexQuery.hasData
    THEN {ret.indexQuery.data[i] : i \in
             {j \in 1..Len(ret.indexQuery.data) :
                 ret.indexQuery.data[j].index \in Number}}
    ELSE {}

Distance(a, b) == IF a < b THEN b - a ELSE a - b

\* C15: with a valid index point, a price point with an index point at its
\* timestamp gets the index of such a point; otherwise it gets the index of
\* an index point closest in time among those less than 24 hours away; with
\* no index point that near it is dropped, never given a default.
C15_NearestWithinTolerance ==
    (ChartMerged /\ ValidIndexPoints # {}) =>
        \A i \in 1..Len(ret.out.steps) :
            LET st == ret.out.steps[i]
                t == st.btcPoint.timestamp
                exact == {q \in ValidIndexPoints : q.timestamp = t}
                near == {q \in ValidIndexPoints :
                            Distance(q.timestamp, t) < Tolerance}
                nearest == {q \in near : \A r \in near :
                               Distance(q.timestamp, t) <= Distance(r.timestamp, t)}
            IN  /\ exact # {} =>
                      st.pushed /\ \E q \in exact : st.point.index = q.index
                /\ (exact = {} /\ near # {}) =>
                      st.pushed /\ \E q \in nearest : st.point.index = q.index
                /\ near = {} => ~st.pushed

\* One render with a price point matched to the nearer of two index points
\* and a price point dropped 25 hours after the index point nearest to it.
C15_Witness ==
    /\ ChartMerged
    /\ Cardinality(ValidIndexPoints) = 2
    /\ \E i \in 1..Len(ret.out.steps) :
          LET st == ret.out.steps[i]
          IN  /\ st.pushed
              /\ \A q \in ValidIndexPoints : q.timestamp # st.btcPoint.timestamp
              /\ \E q, r \in ValidIndexPoints :
                    /\ Distance(r.timestamp, st.btcPoint.timestamp) < Tolerance
                    /\ Distance(q.timestamp, st.btcPoint.timestamp)
                          < Distance(r.timestamp, st.btcPoint.timestamp)
                    /\ q.index # r.index
                    /\ st.point.index = q.index
    /\ \E i \in 1..Len(ret.out.steps) :
          /\ ~ret.out.steps[i].pushed
          /\ \E q \in ValidIndexPoints :
                ret.out.steps[i].btcPoint.timestamp = q.timestamp + Tolerance + 1

\* A price point at the timestamp of an index point, another index point
\* being less than 24 hours from it.
C15_ExactWitness ==
    /\ ChartMerged
    /\ \E i \in 1..Len(ret.out.steps), q, r \in ValidIndexPoints :
          /\ ret.out.steps[i].pushed
          /\ q.timestamp = ret.out.steps[i].btcPoint.timestamp
          /\ r.timestamp # q.timestamp
          /\ ret.out.steps[i].point.index = q.index

\* C16: with no valid index point at all the merge keeps every price point
\* and gives each the index 50: the merged output has as many points as the
\* price series.
C16_FallbackWhenNoIndex ==
    (ChartMerged /\ ValidIndexPoints = {}) =>
        /\ \A i \in 1..Len(ret.out.steps) :
              /\ ret.out.steps[i].pushed
              /\ ret.out.steps[i].point.index = Num(FallbackIndex)
        /\ Len(ret.btcQuery.data) > 0 =>
              /\ ret.out.chartData # Null
              /\ Len(ret.out.chartData.data) = Len(ret.btcQuery.data)
              /\ \A i \in 1..Len(ret.out.chartData.data) :
                    ret.out.chartData.data[i].index = Num(FallbackIndex)

\* Two price points merged against a response whose only index is not a
\* number.
C16_Witness ==
    /\ ChartMerged
    /\ ValidIndexPoints = {}
    /\ ret.indexQuery.defined /\ ret.indexQuery.hasData
    /\ Len(ret.indexQuery.data) = 1
    /\ Len(ret.btcQuery.data) = 2
    /\ ret.out.chartData # Null
    /\ ret.out.chartData.count = 2

(***************************************************************************)
(* calculateCorrelation.                                                   *)
(***************************************************************************)
CorrelationReturned == ret.fn = "calculateCorrelation"

\* C17: calculateCorrelation returns 0 when the two sequences differ in
\* length, when their length is below 2, and when either is constant (the
\* Pearson denominator is then 0).
C17_DegenerateGivesZero ==
    (/\ CorrelationReturned
     /\ \/ Len(ret.indexValues) # Len(ret.priceValues)
        \/ Len(ret.indexValues) < 2
        \/ IsConstant(ret.indexValues)
        \/ IsConstant(ret.priceValues))
        => ret.out = Zero

\* C18: for a sequence xs of length >= 2 that is not constant,
\* calculateCorrelation(xs, xs) = 1 and calculateCorrelation(xs, -xs) = -1.
C18_SelfAndNegation ==
    (/\ CorrelationReturned
     /\ Len(ret.indexValues) >= 2
     /\ ~IsConstant(ret.indexValues))
        => /\ ret.priceValues = ret.indexValues => ret.out = One
           /\ ret.priceValues = NegSeq(ret.indexValues) => ret.out = Neg[One]

\* A sequence of three values, not constant, correlated with its negation,
\* the sums of squares not being 1.
C18_Witness ==
    /\ CorrelationReturned
    /\ Len(ret.indexValues) = 3
    /\ ~IsConstant(ret.indexValues)
    /\ ret.priceValues = NegSeq(ret.indexValues)
    /\ ret.out = Neg[One]
    /\ calculateCorrelationNoRoot(ret.indexValues, ret.priceValues) # Neg[One]

(***************************************************************************)
(* The objects of a call.                                                  *)
(***************************************************************************)
IndexOnHeapReturned == ret.fn = "indexOnHeap"

ArgumentObjects == 1..Len(ret.before)

SameApartFromTimestamp(a, b) ==
    /\ a.index = b.index
    /\ a.liquidityZScore = b.liquidityZScore
    /\ a.pmiZScore = b.pmiZScore
    /\ a.btcTrend = b.btcTrend
    /\ a.interpretation = b.interpretation

\* C19: calculateBitcoinDirectionIndex called twice with the same arguments
\* returns the same index, liquidityZScore, pmiZScore, btcTrend and
\* interpretation; each call returns an object that did not exist before it;
\* the three histories and the three snapshots passed in are unchanged, and
\* so is a result already returned.
C19_PureApartFromTimestamp ==
    IndexOnHeapReturned =>
        /\ \A o \in ArgumentObjects : ret.first.heap[o] = ret.before[o]
        /\ ret.first.result \notin ArgumentObjects
        /\ ret.calls = 2 =>
              /\ \A o \in ArgumentObjects : ret.second.heap[o] = ret.before[o]
              /\ ret.second.result \notin 1..Len(ret.first.heap)
              /\ ret.second.heap[ret.first.result]
                    = ret.first.heap[ret.first.result]
              /\ SameApartFromTimestamp(ret.first.heap[ret.first.result],
                                        ret.second.heap[ret.second.result])

\* Two calls at different times on a price history longer than the short
\* window, the index not being the neutral 50.
C19_Witness ==
    /\ IndexOnHeapReturned
    /\ ret.calls = 2
    /\ Len(ret.before[ArgumentRefs.btcPriceHistory]) > ShortWindow
    /\ ret.first.heap[ret.first.result].timestamp
          # ret.second.heap[ret.second.result].timestamp
    /\ ret.first.heap[ret.first.result].index # Num(50)

(***************************************************************************)
(* The routes when a series is absent.                                     *)
(***************************************************************************)
\* C21: when the Fed request of the index-history route fails or answers
\* without a valued observation, the route answers (status 200) with data
\* [], count 0 and the error 'Insufficient liquidity data', whatever the
\* other series hold; a failed FRED request leaves an empty series.
C21_NoFedNoIndex ==
    IndexHistoryReturned =>
        /\ ret.fetches.fed.failed => ret.fedData = <<>>
        /\ ret.fetches.tga.failed => ret.tgaData = <<>>
        /\ ret.fetches.rrp.failed => ret.rrpData = <<>>
        /\ ret.fetches.pmi.failed => ret.pmiHistory = <<>>
        /\ ret.out.status = 200
        /\ ret.fedData = <<>> =>
              /\ ret.out.body.data = <<>>
              /\ ret.out.body.count = 0
              /\ "error" \in DOMAIN ret.out.body
              /\ ret.out.body.error = "Insufficient liquidity data"

\* The Fed request failed while the TGA, the PMI and three prices arrived.
C21_Witness ==
    /\ IndexHistoryReturned
    /\ ret.fetches.fed.failed
    /\ ret.tgaData # <<>> /\ ret.pmiHistory # <<>>
    /\ Len(ret.btcPriceHistory) >= 3
    /\ ret.out.body.count = 0

\* The Fed request answered with an observation without a value only.
C21_WitnessNoValue ==
    /\ IndexHistoryReturned
    /\ ~ret.fetches.fed.failed
    /\ Len(ret.fetches.fed.observations) = 1
    /\ ret.fedData = <<>>
    /\ "error" \in DOMAIN ret.out.body

\* No PMI observation is dated the point's date or earlier.
BeforeEveryPMI(p) == \A k \in 1..Len(ret.pmiHistory) : p.date < ret.pmiHistory[k].date

\* The z-score of the default PMI value against the PMI history.
DefaultPMIZScore ==
    LET pmiHistoryValues == [k \in 1..Len(ret.pmiHistory) |-> ret.pmiHistory[k].value]
        pmiStats == calculateStats(MapCenter(pmiHistoryValues))
    IN  calculateZScore(Sub[Num(DefaultPMI), Num(PMICenter)], pmiStats.mean,
                        pmiStats.stdDev)

\* C22: in the index-history route a price point dated before every PMI
\* observation (any point when there is none) is emitted all the same, and
\* its index is computed with the PMI value 50; with an empty PMI series the
\* PMI z-score of every emitted point is 0.
C22_DefaultPMI ==
    IndexHistoryReturned =>
        \A i \in 1..Len(ret.out.steps) :
            LET st == ret.out.steps[i]
            IN  BeforeEveryPMI(st.locals.btcPoint) =>
                    /\ st.pushed <=> (/\ HasTwoPrices(st.locals.btcPoint)
                                      /\ HasLiquidity(st.locals.btcPoint))
                    /\ st.pushed =>
                          /\ st.pmiData.value = Num(DefaultPMI)
                          /\ st.directionIndex.pmiZScore = DefaultPMIZScore
                          /\ st.point.index = st.directionIndex.index
                          /\ ret.pmiHistory = <<>> =>
                                st.directionIndex.pmiZScore = Zero

\* An emitted point dated before the PMI observations there are, its PMI
\* z-score not 0.
C22_Witness ==
    /\ IndexHistoryReturned
    /\ ret.pmiHistory # <<>>
    /\ \E i \in 1..Len(ret.out.steps) :
          /\ ret.out.steps[i].pushed
          /\ BeforeEveryPMI(ret.out.steps[i].locals.btcPoint)
          /\ ret.out.steps[i].directionIndex.pmiZScore # Zero

\* An emitted point of a response computed without any PMI observation.
C22_WitnessEmpty ==
    /\ IndexHistoryReturned
    /\ ret.pmiHistory = <<>>
    /\ ret.out.body.count >= 1

(***************************************************************************)
(* The price history route.                                                *)
(***************************************************************************)
FailedOutcomes == {k \in 1..Len(ret.outcomes) : ~ret.outcomes[k].ok}

\* What fetchWithRetry has done so far is within its contract.
RetryDiscipline ==
    HistoryRunning =>
        /\ ret.requests <= ret.maxRetries
        /\ Len(ret.outcomes) <= ret.requests
        /\ \A k \in 1..Len(ret.outcomes) :
              ret.outcomes[k].ok =>
                  /\ k = Len(ret.outcomes)
                  /\ ret.requests = k
                  /\ ret.pc = "responded"
                  /\ ret.ended = "returned"
                  /\ ret.marketData = ret.outcomes[k]
        /\ Len(ret.waits) = Cardinality({k \in FailedOutcomes : k < ret.maxRetries})
        /\ ret.requests <= Len(ret.waits) + 1
        /\ \A k \in 1..Len(ret.waits) :
              ret.waits[k] = IF ret.outcomes[k].status = TooManyRequests
                             THEN RateLimitWait * k ELSE RetryWait * k

\* C23: fetchWithRetry issues at most maxRetries requests, returns the data
\* of the first successful request without issuing another, waits 5000*k ms
\* after a 429 and 1000*k ms after another error before the attempt after
\* the failed attempt k, and always ends, returning or throwing.
C23_RetryEnds ==
    /\ []RetryDiscipline
    /\ (HistoryRunning /\ ret.pc # "responded")
           ~> (HistoryRunning /\ ret.pc = "responded")

\* Three requests, the first failed with 429, the second otherwise, the
\* third answered.
C23_Witness ==
    /\ HistoryRunning
    /\ ret.pc = "responded"
    /\ ret.requests = DefaultMaxRetries
    /\ ret.ended = "returned"
    /\ ret.outcomes[1].status = TooManyRequests
    /\ ret.outcomes[2].status # TooManyRequests
    /\ ret.waits = <<RateLimitWait, RetryWait * 2>>

\* GET has answered; it calls fetchWithRetry with the default maxRetries.
HistoryResponded ==
    /\ HistoryRunning
    /\ ret.pc = "responded"
    /\ ret.maxRetries = DefaultMaxRetries

LastOutcome == ret.outcomes[Len(ret.outcomes)]

\* C24: GET /api/bitcoin/history answers 429 exactly when the last attempt
\* failed with HTTP 429, 500 when it failed otherwise or the price list was
\* empty, and otherwise the data, one point per price in the same order,
\* count being their number.
C24_HistoryResponse ==
    HistoryResponded =>
        /\ ret.out.status = TooManyRequests
              <=> (~LastOutcome.ok /\ LastOutcome.status = TooManyRequests)
        /\ ret.out.status = 500
              <=> \/ ~LastOutcome.ok /\ LastOutcome.status # TooManyRequests
                  \/ LastOutcome.ok /\ LastOutcome.prices = <<>>
        /\ (LastOutcome.ok /\ LastOutcome.prices # <<>>) =>
              /\ ret.out.status = 200
              /\ ret.out.body.count = Len(LastOutcome.prices)
              /\ Len(ret.out.body.data) = Len(LastOutcome.prices)
              /\ \A i \in 1..Len(LastOutcome.prices) :
                    /\ ret.out.body.data[i].timestamp = LastOutcome.prices[i][1]
                    /\ ret.out.body.data[i].price = LastOutcome.prices[i][2]

(***************************************************************************)
(* The dashboard route.                                                    *)
(***************************************************************************)
DashboardAnswered == DashboardReturned /\ ret.out.status = 200

\* The index of the lowest and of the highest liquidity z-score with the
\* other two components at 0: 30 and 70, as the number format holds them.
LowestLiquidityIndex == ComposeIndex[Num(-ZClamp), Zero, Zero].index
HighestLiquidityIndex == ComposeIndex[Num(ZClamp), Zero, Zero].index

\* C25: the dashboard route computes the index on 12 copies of the PMI
\* value and 30 copies of the price, so pmiZScore = 0 and btcTrend = 0, the
\* index is the one the liquidity z-score alone gives and lies in [30, 70],
\* the interpretation is neither very_bearish nor very_bullish, and the
\* correlation is 0.
C25_DashboardIndexOnLiquidityOnly ==
    DashboardAnswered =>
        LET directionIndex == ret.out.body.directionIndex
        IN  /\ directionIndex.pmiZScore = Zero
            /\ directionIndex.btcTrend = Zero
            /\ directionIndex.index =
                   ComposeIndex[directionIndex.liquidityZScore, Zero, Zero].index
            /\ Le[LowestLiquidityIndex, directionIndex.index]
            /\ Le[directionIndex.index, HighestLiquidityIndex]
            /\ directionIndex.interpretation \notin {"very_bearish", "very_bullish"}
            /\ ret.out.body.correlation = Zero

\* The snapshots of a settled PMI request: the one fetchPMI built for the
\* dashboard, the one the PMI route answered with.
PMISnapshotOf ==
    IF ret.fn = "pmi" THEN ret.out.body ELSE ret.pmi

PMIAnswered ==
    /\ \/ ret.fn = "pmi"
       \/ DashboardReturned
    /\ ~ret.pmiFetch.failed
    /\ Len(Valued(ret.pmiFetch.observations)) > 0

\* The valued observation of the latest date, and the valued observations
\* earlier than it.
IsMostRecent(obs) ==
    \A k \in 1..Len(Valued(ret.pmiFetch.observations)) :
        Valued(ret.pmiFetch.observations)[k].date <= obs.date

EarlierThan(obs) ==
    SelectSeq(Valued(ret.pmiFetch.observations), LAMBDA o : o.date < obs.date)

IsJustBefore(o, obs) ==
    /\ o.date < obs.date
    /\ \A k \in 1..Len(EarlierThan(obs)) : EarlierThan(obs)[k].date <= o.date

\* C26: the PMI snapshot of the dashboard and of the PMI route has the value
\* and the date of the most recent valued observation, and as change that
\* value minus the value of the observation just before it in time.
C26_SnapshotOfLatestPMI ==
    PMIAnswered =>
        \A i \in 1..Len(Valued(ret.pmiFetch.observations)) :
            LET obs == Valued(ret.pmiFetch.observations)[i]
            IN  IsMostRecent(obs) =>
                    /\ PMISnapshotOf.value = obs.value
                    /\ PMISnapshotOf.date = obs.date
                    /\ \A j \in 1..Len(Valued(ret.pmiFetch.observations)) :
                          LET o == Valued(ret.pmiFetch.observations)[j]
                          IN  IsJustBefore(o, obs) =>
                                  PMISnapshotOf.change = Sub[obs.value, o.value]

\* Entry i of liquidityHistory is made of the i-th Fed, TGA and RRP
\* observations, all three of one date.
CombinesOneDate(i) ==
    /\ i \in 1..Len(ret.tgaData)
    /\ i \in 1..Len(ret.rrpData)
    /\ ret.tgaData[i].date = ret.fedData[i].date
    /\ ret.rrpData[i].date = ret.fedData[i].date
    /\ ret.out.liquidityHistory[i] =
           Sub[Sub[ret.fedData[i].value, ret.tgaData[i].value],
               ret.rrpData[i].value]

\* C27: in the dashboard route the current liquidity (latest Fed - latest
\* TGA - latest RRP) is the last entry of liquidityHistory, and every entry
\* of the history combines observations of one date, whatever the lengths
\* of the three series.
C27_HistoryEndsAtCurrent ==
    DashboardAnswered =>
        /\ Len(ret.out.liquidityHistory) = Len(ret.fedData)
        /\ ret.out.body.liquidity.liquidity =
               ret.out.liquidityHistory[Len(ret.out.liquidityHistory)]
        /\ \A i \in 1..Len(ret.out.liquidityHistory) : CombinesOneDate(i)

(***************************************************************************)
(* The merged chart as a whole.                                            *)
(***************************************************************************)
\* The points the chart draws.
MergedData == IF ret.out.chartData = Null THEN <<>> ELSE ret.out.chartData.data

IsAscending(points) ==
    \A i, j \in 1..Len(points) : i < j => points[i].timestamp <= points[j].timestamp

\* point has the timestamp, date and price of btcPoint.
TakenFrom(point, btcPoint) ==
    /\ point.timestamp = btcPoint.timestamp
    /\ point.date = btcPoint.date
    /\ point.price = btcPoint.price

\* Every point comes from a price point of its own.
EachFromOnePricePoint(points, btcData) ==
    \E f \in [1..Len(points) -> 1..Len(btcData)] :
        /\ \A i, j \in 1..Len(points) : f[i] = f[j] => i = j
        /\ \A i \in 1..Len(points) : TakenFrom(points[i], btcData[f[i]])

\* The valid index point nearest to t is exactly 24 hours away.
NearestIsAtTolerance(t) ==
    /\ \E q \in ValidIndexPoints : Distance(q.timestamp, t) = Tolerance
    /\ \A q \in ValidIndexPoints : Distance(q.timestamp, t) >= Tolerance

\* C28: the merged chart is in ascending order of timestamp, has at most as
\* many points as the price series, each of its points takes timestamp, date
\* and price from one price point of its own and has a non-null index, and a
\* price point whose nearest index point is exactly 24 hours away is not
\* matched.
C28_MergedChart ==
    ChartMerged =>
        /\ IsAscending(MergedData)
        /\ Len(MergedData) <= Len(ret.btcQuery.data)
        /\ EachFromOnePricePoint(MergedData, ret.btcQuery.data)
        /\ \A i \in 1..Len(MergedData) : MergedData[i].index # Null
        /\ \A i \in 1..Len(ret.out.steps) :
              NearestIsAtTolerance(ret.out.steps[i].btcPoint.timestamp) =>
                  /\ ~ret.out.steps[i].pushed
                  /\ \A k \in 1..Len(MergedData) :
                        MergedData[k].timestamp # ret.out.steps[i].btcPoint.timestamp

\* Three price points out of order: the one 24 hours after the only index
\* point is dropped, the other two are drawn in order.
C28_Witness ==
    /\ ChartMerged
    /\ Len(ret.btcQuery.data) = 3
    /\ ~IsAscending(ret.btcQuery.data)
    /\ Len(MergedData) = 2
    /\ \E i \in 1..Len(ret.out.steps) :
          /\ NearestIsAtTolerance(ret.out.steps[i].btcPoint.timestamp)
          /\ ~ret.out.steps[i].pushed

(***************************************************************************)
(* The Dashboard component.                                                *)
(***************************************************************************)
LatestSucceeded == CHOOSE r \in ret.succeeded : \A q \in ret.succeeded : q <= r

\* C29: under every interleaving of the initial fetch, the auto-refresh, the
\* buttons and the responses, loading is true while a fetchData call is in
\* flight, and once all have completed the data shown is that of the call
\* started last among those that succeeded.
C29_LoadingAndLatestData ==
    Mounted =>
        /\ ret.inFlight # {} => ret.loading
        /\ (ret.inFlight = {} /\ ret.succeeded # {}) =>
               ret.data = DashboardDataOf(LatestSucceeded)

(***************************************************************************)
(* The trend of short price histories.                                     *)
(***************************************************************************)
\* The windows of the short and of the medium term are the whole history.
WindowsCoincide(historicalPrices) ==
    Len(historicalPrices) >= 2 /\ Len(historicalPrices) <= ShortWindow

\* C30: calculateBTCTrend returns 0 for every history of 2 to 7 prices, so a
\* trend other than 0 needs at least 8 prices, and the points of the
\* index-history route with fewer than 8 price observations at or before
\* them have btcTrend = 0.
C30_ShortHistoryHasNoTrend ==
    /\ TrendReturned =>
          /\ WindowsCoincide(ret.historicalPrices) => ret.out = Zero
          /\ ret.out # Zero => Len(ret.historicalPrices) > ShortWindow
    /\ IndexHistoryReturned =>
          \A i \in 1..Len(ret.out.steps) :
              (/\ ret.out.steps[i].pushed
               /\ Cardinality({j \in 1..Len(ret.btcPriceHistory) :
                      ret.btcPriceHistory[j].timestamp
                          <= ret.out.steps[i].locals.btcPoint.timestamp}) <= ShortWindow)
                  => ret.out.steps[i].directionIndex.btcTrend = Zero

\* A response of the route whose seventh point follows a higher price and
\* has no trend, and whose eighth point has one.
C30_Witness ==
    /\ IndexHistoryReturned
    /\ \E i, j \in 1..Len(ret.out.steps) :
          /\ ret.out.steps[i].pushed
          /\ Len(ret.out.steps[i].locals.recentPrices) = ShortWindow
          /\ ret.out.steps[i].locals.recentPrices[1] # ret.out.steps[i].locals.recentPrices[2]
          /\ ret.out.steps[i].directionIndex.btcTrend = Zero
          /\ ret.out.steps[j].pushed
          /\ Len(ret.out.steps[j].locals.recentPrices) = ShortWindow + 1
          /\ ret.out.steps[j].directionIndex.btcTrend # Zero

\* A call of calculateBTCTrend on four prices that are not all the same.
C30_WitnessCall ==
    /\ TrendReturned
    /\ Len(ret.historicalPrices) = 4
    /\ ret.historicalPrices[1] # ret.historicalPrices[4]
    /\ ret.out = Zero

================================================================
